---- MODULE Spec2Model ----
(***************************************************************************)
(* A model of the BAZI engine (src/backend/bazi_engine): the stem/branch   *)
(* registry, the sexagenary calculator, the five-elements relationships,   *)
(* the Ten-Gods classifier, the daily-forecast scores and the              *)
(* compatibility scorer.  Every operator is translated from the Python     *)
(* function of the same name; stems and branches are the enum member       *)
(* names, indices are the values of STEM_INDEX / BRANCH_INDEX.             *)
(***************************************************************************)
EXTENDS Integers, Sequences, FiniteSets, TLC

VARIABLES
    year,            \* calculator.get_year_stem_branch: the argument
    year_pillar,     \* its result, <<stem, branch>>
    annual_pillar,   \* annual_luck._get_year_stem_branch(year)
    month,           \* calculator.get_day_stem_branch: month argument
    day,             \* calculator.get_day_stem_branch: day argument
    day_pillar,      \* its result, <<stem, branch>>
    target_day_pillar,    \* daily_forecast.get_daily_pillar of the same date
    dm_element,      \* ten_gods.get_ten_god: Day Master element
    dm_yin_yang,     \* ten_gods.get_ten_god: Day Master polarity
    target_element,  \* ten_gods.get_ten_god: target element
    target_yin_yang, \* ten_gods.get_ten_god: target polarity
    rel_dm_to_target,  \* get_ten_god's local: relationship DM -> target
    rel_target_to_dm,  \* get_ten_god's local: relationship target -> DM
    ten_god,         \* the key of the Ten God get_ten_god returns
    chart,           \* daily_forecast.calculate_daily_forecast: the natal chart
    forecast,        \* its result: daily pillar, overall score, domain scores
    chart_a,         \* compatibility.analyze_compatibility: chart of person A
    chart_b,         \* compatibility.analyze_compatibility: chart of person B
    compat_ab,       \* analyze_compatibility(chart_a, chart_b)
    compat_ba,       \* analyze_compatibility(chart_b, chart_a)
    bazi_input,      \* calculator.calculate_bazi: the explicit arguments
    clock_year,      \* datetime.now().year, the system clock
    bazi_results,    \* the charts returned by the invocations so far
    natal_pillars,   \* calculate_bazi's four_pillars dict, annotated in place
    strongest_ten_god,  \* ten_gods.get_strongest_ten_god(four_pillars)
    seasonal_strength,  \* seasonal_strength.get_seasonal_strength(...)
    use_god_result,  \* use_god.determine_use_god(...)
    interaction_pillars,  \* the four_pillars given to analyze_pillar_interactions
    pillar_interactions,  \* what analyze_pillar_interactions returned
    _counters,       \* RateLimiter._counters: key -> [count, day]
    today,           \* RateLimiter._today(): the UTC day number of the clock
    requests,        \* the requests to the rate-limited endpoints
    balance_counts,  \* elements.get_element_balance: element_counts
    element_analysis \* what get_element_balance returned

yearVars == <<year_pillar, annual_pillar>>
dayVars == <<month, day, day_pillar, target_day_pillar>>
calendarVars == <<year, yearVars, dayVars>>
tenGodArgs == <<dm_element, dm_yin_yang, target_element, target_yin_yang>>
tenGodVars == <<tenGodArgs, rel_dm_to_target, rel_target_to_dm, ten_god>>
forecastVars == <<chart, forecast>>
compatVars == <<chart_a, chart_b, compat_ab, compat_ba>>
baziVars == <<bazi_input, clock_year, bazi_results>>
chartVars == <<natal_pillars, strongest_ten_god, seasonal_strength, use_god_result>>
interactionVars == <<interaction_pillars, pillar_interactions>>
rateVars == <<_counters, today, requests>>
balanceVars == <<balance_counts, element_analysis>>
vars == <<calendarVars, tenGodVars, forecastVars, compatVars, baziVars, chartVars, interactionVars, rateVars, balanceVars>>

\* The variables every operation of one component leaves alone
exceptCalendar == <<tenGodVars, forecastVars, compatVars, baziVars, chartVars, interactionVars, rateVars, balanceVars>>
exceptTenGod == <<calendarVars, forecastVars, compatVars, baziVars, chartVars, interactionVars, rateVars, balanceVars>>
exceptForecast == <<calendarVars, tenGodVars, compatVars, baziVars, chartVars, interactionVars, rateVars, balanceVars>>
exceptCompat == <<calendarVars, tenGodVars, forecastVars, baziVars, chartVars, interactionVars, rateVars, balanceVars>>
exceptChart == <<calendarVars, tenGodVars, forecastVars, compatVars, baziVars, interactionVars, rateVars, balanceVars>>
exceptBazi == <<calendarVars, tenGodVars, forecastVars, compatVars, chartVars, interactionVars, rateVars, balanceVars>>
exceptInteraction == <<calendarVars, tenGodVars, forecastVars, compatVars, baziVars, chartVars, rateVars, balanceVars>>
exceptRate == <<calendarVars, tenGodVars, forecastVars, compatVars, baziVars, chartVars, interactionVars, balanceVars>>
exceptBalance == <<calendarVars, tenGodVars, forecastVars, compatVars, baziVars, chartVars, interactionVars, rateVars>>

\* The values of the variables of a component that is not in use
NoPillar == <<"", "">>

NoChart == [day_master |-> "", use_god |-> "", branches |-> <<>>]

NoForecast == [target_delta |-> -1, overall_score |-> -1, domains |-> <<>>]

NoUseGodResult == [dm_strength |-> "", dm_strength_score |-> 0]

NoCompat == [total_score |-> -1, tier |-> "", dimensions |-> <<>>]

YearIdle == year_pillar = NoPillar /\ annual_pillar = NoPillar

DayIdle == month = 0 /\ day = 0 /\ day_pillar = NoPillar /\ target_day_pillar = NoPillar

CalendarIdle == year = 0 /\ YearIdle /\ DayIdle

TenGodIdle ==
    /\ dm_element = "" /\ dm_yin_yang = ""
    /\ target_element = "" /\ target_yin_yang = ""
    /\ rel_dm_to_target = "" /\ rel_target_to_dm = "" /\ ten_god = ""

ForecastIdle == chart = NoChart /\ forecast = NoForecast

CompatIdle ==
    /\ chart_a = NoChart /\ chart_b = NoChart
    /\ compat_ab = NoCompat /\ compat_ba = NoCompat

BaziIdle == bazi_input = <<>> /\ clock_year = 0 /\ bazi_results = <<>>

NoStrongest == [strongest_ten_god |-> "", count |-> -1]

ChartIdle ==
    /\ natal_pillars = <<>> /\ strongest_ten_god = NoStrongest
    /\ seasonal_strength = "" /\ use_god_result = NoUseGodResult

\* analyze_pillar_interactions has not been called
NoInteractions == [interactions |-> <<>>, summary |-> [positive |-> 0, negative |-> 0, total |-> -1]]

InteractionIdle == interaction_pillars = <<>> /\ pillar_interactions = NoInteractions

RateIdle == _counters = <<>> /\ today = 0 /\ requests = <<>>

\* get_element_balance has not been called
NoBalance == [total |-> -1, balance |-> "", deficient |-> {}, abundant |-> {}]

BalanceIdle == balance_counts = <<>> /\ element_analysis = NoBalance

IdleExceptCalendar == TenGodIdle /\ ForecastIdle /\ CompatIdle /\ BaziIdle /\ ChartIdle /\ InteractionIdle /\ RateIdle /\ BalanceIdle
IdleExceptTenGod == CalendarIdle /\ ForecastIdle /\ CompatIdle /\ BaziIdle /\ ChartIdle /\ InteractionIdle /\ RateIdle /\ BalanceIdle
IdleExceptForecast == CalendarIdle /\ TenGodIdle /\ CompatIdle /\ BaziIdle /\ ChartIdle /\ InteractionIdle /\ RateIdle /\ BalanceIdle
IdleExceptCompat == CalendarIdle /\ TenGodIdle /\ ForecastIdle /\ BaziIdle /\ ChartIdle /\ InteractionIdle /\ RateIdle /\ BalanceIdle
IdleExceptChart == CalendarIdle /\ TenGodIdle /\ ForecastIdle /\ CompatIdle /\ BaziIdle /\ InteractionIdle /\ RateIdle /\ BalanceIdle
IdleExceptBazi == CalendarIdle /\ TenGodIdle /\ ForecastIdle /\ CompatIdle /\ ChartIdle /\ InteractionIdle /\ RateIdle /\ BalanceIdle
IdleExceptInteraction == CalendarIdle /\ TenGodIdle /\ ForecastIdle /\ CompatIdle /\ BaziIdle /\ ChartIdle /\ RateIdle /\ BalanceIdle
IdleExceptRate == CalendarIdle /\ TenGodIdle /\ ForecastIdle /\ CompatIdle /\ BaziIdle /\ ChartIdle /\ InteractionIdle /\ BalanceIdle
IdleExceptBalance == CalendarIdle /\ TenGodIdle /\ ForecastIdle /\ CompatIdle /\ BaziIdle /\ ChartIdle /\ InteractionIdle /\ RateIdle

(***************************************************************************)
(* Stem/Branch registry (stems_branches.py)                                *)
(***************************************************************************)

\* INDEX_TO_STEM, as a sequence: index i is element i+1
INDEX_TO_STEM ==
    <<"JIA", "YI", "BING", "DING", "WU", "JI", "GENG", "XIN", "REN", "GUI">>

\* INDEX_TO_BRANCH, as a sequence: index i is element i+1
INDEX_TO_BRANCH ==
    <<"ZI", "CHOU", "YIN", "MAO", "CHEN", "SI",
      "WU_BRANCH", "WEI", "SHEN", "YOU", "XU", "HAI">>

HeavenlyStem == { INDEX_TO_STEM[i] : i \in 1..Len(INDEX_TO_STEM) }
EarthlyBranch == { INDEX_TO_BRANCH[i] : i \in 1..Len(INDEX_TO_BRANCH) }

STEM_INDEX(stem) == CHOOSE i \in 0..9 : INDEX_TO_STEM[i + 1] = stem
BRANCH_INDEX(branch) == CHOOSE i \in 0..11 : INDEX_TO_BRANCH[i + 1] = branch

get_stem_by_index(index) == INDEX_TO_STEM[(index % 10) + 1]
get_branch_by_index(index) == INDEX_TO_BRANCH[(index % 12) + 1]

\* HeavenlyStem.<X>.value["element"]
get_stem_element(stem) ==
    CASE stem \in {"JIA", "YI"} -> "Wood"
      [] stem \in {"BING", "DING"} -> "Fire"
      [] stem \in {"WU", "JI"} -> "Earth"
      [] stem \in {"GENG", "XIN"} -> "Metal"
      [] stem \in {"REN", "GUI"} -> "Water"

\* HeavenlyStem.<X>.value["yin_yang"]
get_stem_yin_yang(stem) ==
    IF stem \in {"JIA", "BING", "WU", "GENG", "REN"} THEN "Yang" ELSE "Yin"

\* EarthlyBranch.<X>.value["element"]
get_branch_element(branch) ==
    CASE branch \in {"ZI", "HAI"} -> "Water"
      [] branch \in {"CHOU", "CHEN", "WEI", "XU"} -> "Earth"
      [] branch \in {"YIN", "MAO"} -> "Wood"
      [] branch \in {"SI", "WU_BRANCH"} -> "Fire"
      [] branch \in {"SHEN", "YOU"} -> "Metal"

\* EarthlyBranch.<X>.value["yin_yang"]
get_branch_yin_yang(branch) ==
    IF branch \in {"ZI", "YIN", "CHEN", "WU_BRANCH", "SHEN", "XU"}
    THEN "Yang" ELSE "Yin"

(***************************************************************************)
(* Sexagenary calculator: the year pillar (calculator.py, annual_luck.py)  *)
(***************************************************************************)

GREGORIAN_EPOCH == 1900

\* The last year of the supported input range ("years 1900-2100")
MaxYear == 2100

Years == GREGORIAN_EPOCH..MaxYear

\* Mutant of get_year_stem_branch: the cycle length taken as 30
get_year_stem_branch_cycle30(y) ==
    LET year_position == (y - GREGORIAN_EPOCH) % 30
    IN  <<get_stem_by_index(year_position % 10),
          get_branch_by_index(year_position % 12)>>

get_year_stem_branch(y) ==
    LET year_position == (y - GREGORIAN_EPOCH) % 60
        stem_index == year_position % 10
        branch_index == year_position % 12
    IN  <<get_stem_by_index(stem_index), get_branch_by_index(branch_index)>>

\* annual_luck._get_year_stem_branch: the copy kept to avoid a circular import
annual_get_year_stem_branch(y) ==
    LET year_position == (y - GREGORIAN_EPOCH) % 60
        stem_index == year_position % 10
        branch_index == year_position % 12
    IN  <<get_stem_by_index(stem_index), get_branch_by_index(branch_index)>>

\* The n-th pair of the sexagenary cycle that starts at JIA-ZI (n = 0)
SexagenaryPair(n) == <<INDEX_TO_STEM[(n % 10) + 1], INDEX_TO_BRANCH[(n % 12) + 1]>>

\* The position of a pair in that cycle
SexagenaryPosition(pair) == CHOOSE n \in 0..59 : SexagenaryPair(n) = pair

(***************************************************************************)
(* Specification SpecYear: the two year-pillar functions on every year of  *)
(* the input range.                                                        *)
(***************************************************************************)

InitYear ==
    /\ year \in Years
    /\ year_pillar = NoPillar
    /\ annual_pillar = NoPillar
    /\ DayIdle
    /\ IdleExceptCalendar

GetYearStemBranch ==
    /\ year_pillar = NoPillar
    /\ year_pillar' = get_year_stem_branch(year)
    /\ UNCHANGED <<year, annual_pillar, dayVars, exceptCalendar>>

AnnualGetYearStemBranch ==
    /\ annual_pillar = NoPillar
    /\ annual_pillar' = annual_get_year_stem_branch(year)
    /\ UNCHANGED <<year, year_pillar, dayVars, exceptCalendar>>

NextYear == GetYearStemBranch \/ AnnualGetYearStemBranch

SpecYear == InitYear /\ [][NextYear]_vars

\* C1: the year pillar has period exactly 60: the pillar of Y+60 is the
\* pillar of Y, no Y+k with 0 < k < 60 has the pillar of Y, and the
\* annual-luck copy has the same period.
C1_YearPeriod60 ==
    /\ year_pillar # NoPillar =>
          /\ get_year_stem_branch(year + 60) = year_pillar
          /\ \A k \in 1..59 : get_year_stem_branch(year + k) # year_pillar
    /\ annual_pillar # NoPillar =>
          /\ annual_get_year_stem_branch(year + 60) = annual_pillar
          /\ \A k \in 1..59 : annual_get_year_stem_branch(year + k) # annual_pillar

\* C1 witness: both functions have run on a year whose pillar is not the
\* first pair of the cycle.
C1_Witness ==
    /\ year = 1990
    /\ year_pillar = <<"JIA", "WU_BRANCH">>
    /\ annual_pillar = <<"JIA", "WU_BRANCH">>

\* C2 (as claimed): the pillar of 1900 is GENG-ZI, position 36 of the cycle,
\* and the pillar of year Y is (Y - 1900) steps after it.
C2_Epoch1900IsGengZi ==
    year_pillar # NoPillar =>
        /\ (year = GREGORIAN_EPOCH => year_pillar = <<"GENG", "ZI">>)
        /\ year_pillar =
              SexagenaryPair(SexagenaryPosition(<<"GENG", "ZI">>)
                             + (year - GREGORIAN_EPOCH))

(***************************************************************************)
(* Sexagenary calculator: the day pillar (calculator.py)                   *)
(***************************************************************************)

\* Mutant of is_leap_year: the century rule forgotten
is_leap_year_every4(y) == y % 4 = 0

is_leap_year(y) == (y % 4 = 0 /\ y % 100 # 0) \/ (y % 400 = 0)

days_in_month == <<31, 28, 31, 30, 31, 30, 31, 31, 30, 31, 30, 31>>

get_days_in_month(y, m) ==
    IF m = 2 /\ is_leap_year(y) THEN 29 ELSE days_in_month[m]

\* for y in range(GREGORIAN_EPOCH, year): total_days += 366 if is_leap_year(y)
\* else 365.  YearLoop(lo, hi, total_days) is the sequence of the values of
\* total_days at the head of the iterations y = lo, ..., hi of that loop,
\* given its value at the head of iteration lo (the range is split in two
\* halves to keep the evaluation shallow).
RECURSIVE YearLoop(_, _, _)
YearLoop(lo, hi, total_days) ==
    IF lo = hi THEN <<total_days>>
    ELSE LET mid == (lo + hi) \div 2
             left == YearLoop(lo, mid, total_days)
             after == left[Len(left)] + (IF is_leap_year(mid) THEN 366 ELSE 365)
         IN  left \o YearLoop(mid + 1, hi, after)

\* The loop run once up to the year after MaxYear: the element at index
\* y - GREGORIAN_EPOCH + 1 is the value the loop over
\* range(GREGORIAN_EPOCH, y) ends with.
YearLoopTotals == YearLoop(GREGORIAN_EPOCH, MaxYear + 1, 0)

DaysOfCompleteYears(untilYear) == YearLoopTotals[untilYear - GREGORIAN_EPOCH + 1]

\* for m in range(1, month): total_days += get_days_in_month(year, m)
RECURSIVE DaysOfCompleteMonths(_, _, _)
DaysOfCompleteMonths(y, m, untilMonth) ==
    IF m >= untilMonth THEN 0
    ELSE get_days_in_month(y, m) + DaysOfCompleteMonths(y, m + 1, untilMonth)

\* day_position of get_day_stem_branch
get_day_position(y, m, d) ==
    LET total_days == DaysOfCompleteYears(y)
                      + DaysOfCompleteMonths(y, 1, m) + d
    IN  (total_days - 1) % 60

get_day_stem_branch(y, m, d) ==
    LET day_position == get_day_position(y, m, d)
        stem_index == day_position % 10
        branch_index == day_position % 12
    IN  <<get_stem_by_index(stem_index), get_branch_by_index(branch_index)>>

(***************************************************************************)
(* The calendar of datetime.strptime(birth_date_str, "%Y-%m-%d"), which    *)
(* decides the dates that reach the calculator: the proleptic Gregorian    *)
(* calendar of the Python standard library.                                *)
(***************************************************************************)

DatetimeIsLeap(y) == y % 4 = 0 /\ (y % 100 # 0 \/ y % 400 = 0)

DatetimeDaysInMonth(y, m) ==
    CASE m \in {4, 6, 9, 11} -> 30
      [] m = 2 -> IF DatetimeIsLeap(y) THEN 29 ELSE 28
      [] OTHER -> 31

ValidDate(y, m, d) ==
    /\ y \in Years
    /\ m \in 1..12
    /\ d \in 1..DatetimeDaysInMonth(y, m)

\* The calendar successor of a valid date, <<year, month, day>>
NextDate(y, m, d) ==
    IF d < DatetimeDaysInMonth(y, m) THEN <<y, m, d + 1>>
    ELSE IF m < 12 THEN <<y, m + 1, 1>>
    ELSE <<y + 1, 1, 1>>

\* date.toordinal() of the standard library: the days from 0001-01-01, which
\* is day 1, in the proleptic Gregorian calendar
DatetimeOrdinal(y, m, d) ==
    LET before_year == (y - 1) * 365 + ((y - 1) \div 4) - ((y - 1) \div 100) + ((y - 1) \div 400)
        _DAYS_BEFORE_MONTH == <<0, 31, 59, 90, 120, 151, 181, 212, 243, 273, 304, 334>>
        before_month == _DAYS_BEFORE_MONTH[m] + (IF m > 2 /\ DatetimeIsLeap(y) THEN 1 ELSE 0)
    IN  before_year + before_month + d

\* Mutant of get_daily_pillar: the reference date counted as day 1
get_daily_pillar_day_one(target_delta) ==
    LET pos == (target_delta + 1) % 60
    IN  <<get_stem_by_index(pos % 10), get_branch_by_index(pos % 12)>>

\* daily_forecast.get_daily_pillar, of the date target_delta days after
\* _REFERENCE_DATE = date(1900, 1, 1)
get_daily_pillar(target_delta) ==
    LET pos == target_delta % 60
    IN  <<get_stem_by_index(pos % 10), get_branch_by_index(pos % 12)>>

(***************************************************************************)
(* Specification SpecDay: get_day_stem_branch and get_daily_pillar on      *)
(* every valid date of the input range.                                    *)
(***************************************************************************)

InitDay ==
    /\ year \in Years
    /\ month \in 1..12
    /\ day \in 1..DatetimeDaysInMonth(year, month)
    /\ day_pillar = NoPillar
    /\ target_day_pillar = NoPillar
    /\ YearIdle
    /\ IdleExceptCalendar

GetDayStemBranch ==
    /\ day_pillar = NoPillar
    /\ day_pillar' = get_day_stem_branch(year, month, day)
    /\ UNCHANGED <<year, month, day, target_day_pillar, yearVars, exceptCalendar>>

\* get_daily_pillar(date(year, month, day)): delta = (target_date - _REFERENCE_DATE).days
GetDailyPillar ==
    /\ target_day_pillar = NoPillar
    /\ target_day_pillar' = get_daily_pillar(DatetimeOrdinal(year, month, day)
                                        - DatetimeOrdinal(GREGORIAN_EPOCH, 1, 1))
    /\ UNCHANGED <<year, month, day, day_pillar, yearVars, exceptCalendar>>

NextDay == GetDayStemBranch \/ GetDailyPillar

SpecDay == InitDay /\ [][NextDay]_vars

\* C3: the day position counts elapsed calendar days: 1900-01-01 is position
\* 0 (JIA-ZI) and the calendar successor of a date is one position further
\* in the 60-cycle, across month ends, year ends and both kinds of February.
C3_DaySuccessor ==
    day_pillar # NoPillar =>
        LET next == NextDate(year, month, day)
        IN  /\ (year = GREGORIAN_EPOCH /\ month = 1 /\ day = 1
                   => day_pillar = <<"JIA", "ZI">>)
            /\ get_day_stem_branch(next[1], next[2], next[3])
                 = SexagenaryPair(SexagenaryPosition(day_pillar) + 1)

\* C3 witness: the pillar of 28 February 2100, a century year that is not a
\* leap year, whose successor is 1 March.
C3_Witness ==
    /\ year = 2100 /\ month = 2 /\ day = 28
    /\ day_pillar # NoPillar
    /\ NextDate(year, month, day) = <<2100, 3, 1>>

(***************************************************************************)
(* Five-elements relationship engine (elements.py)                         *)
(***************************************************************************)

\* class Element, in declaration order
ElementOrder == <<"Wood", "Fire", "Earth", "Metal", "Water">>

Element == { ElementOrder[i] : i \in 1..Len(ElementOrder) }

GENERATION_CYCLE(e) ==
    CASE e = "Wood" -> "Fire"
      [] e = "Fire" -> "Earth"
      [] e = "Earth" -> "Metal"
      [] e = "Metal" -> "Water"
      [] e = "Water" -> "Wood"

\* Mutant of DESTRUCTION_CYCLE: the last entry copied from GENERATION_CYCLE
DESTRUCTION_CYCLE_metal_water(e) ==
    CASE e = "Wood" -> "Earth"
      [] e = "Earth" -> "Water"
      [] e = "Water" -> "Fire"
      [] e = "Fire" -> "Metal"
      [] e = "Metal" -> "Water"

DESTRUCTION_CYCLE(e) ==
    CASE e = "Wood" -> "Earth"
      [] e = "Earth" -> "Water"
      [] e = "Water" -> "Fire"
      [] e = "Fire" -> "Metal"
      [] e = "Metal" -> "Wood"

\* Mutant of get_element_relationships: the destruction cycle never consulted
get_element_relationships_no_destroys(elem1, elem2) ==
    IF elem1 \notin Element \/ elem2 \notin Element THEN "none"
    ELSE IF elem1 = elem2 THEN "same"
    ELSE IF GENERATION_CYCLE(elem1) = elem2 THEN "generates"
    ELSE "none"

get_element_relationships(elem1, elem2) ==
    IF elem1 \notin Element \/ elem2 \notin Element THEN "none"
    ELSE IF elem1 = elem2 THEN "same"
    ELSE IF GENERATION_CYCLE(elem1) = elem2 THEN "generates"
    ELSE IF DESTRUCTION_CYCLE(elem1) = elem2 THEN "destroys"
    ELSE "none"

(***************************************************************************)
(* Ten Gods classifier (ten_gods.py)                                       *)
(***************************************************************************)

\* The keys of TEN_GODS
TEN_GODS ==
    {"friend", "rob_wealth", "eating_god", "hurting_officer",
     "indirect_wealth", "direct_wealth", "seven_killings", "direct_officer",
     "indirect_resource", "direct_resource"}

YinYang == {"Yang", "Yin"}

\* str.lower() on the polarity strings
Lower(s) ==
    CASE s = "Yang" -> "yang"
      [] s = "Yin" -> "yin"
      [] OTHER -> s

\* Mutant of get_ten_god: the fourth rule tests the DM -> target relationship
\* again instead of target -> DM
get_ten_god_rule4_wrong_direction(dm_e, dm_yy, target_e, target_yy) ==
    LET same_polarity == Lower(dm_yy) = Lower(target_yy)
        dm_to_target == get_element_relationships(dm_e, target_e)
        target_to_dm == get_element_relationships(target_e, dm_e)
    IN  IF dm_to_target = "same"
        THEN (IF same_polarity THEN "friend" ELSE "rob_wealth")
        ELSE IF dm_to_target = "generates"
        THEN (IF same_polarity THEN "eating_god" ELSE "hurting_officer")
        ELSE IF dm_to_target = "destroys"
        THEN (IF same_polarity THEN "indirect_wealth" ELSE "direct_wealth")
        ELSE IF dm_to_target = "destroys"
        THEN (IF same_polarity THEN "seven_killings" ELSE "direct_officer")
        ELSE IF target_to_dm = "generates"
        THEN (IF same_polarity THEN "indirect_resource" ELSE "direct_resource")
        ELSE "friend"

\* get_ten_god: the key of the TEN_GODS entry it returns
get_ten_god(dm_e, dm_yy, target_e, target_yy) ==
    LET same_polarity == Lower(dm_yy) = Lower(target_yy)
        dm_to_target == get_element_relationships(dm_e, target_e)
        target_to_dm == get_element_relationships(target_e, dm_e)
    IN  IF dm_to_target = "same"
        THEN (IF same_polarity THEN "friend" ELSE "rob_wealth")
        ELSE IF dm_to_target = "generates"
        THEN (IF same_polarity THEN "eating_god" ELSE "hurting_officer")
        ELSE IF dm_to_target = "destroys"
        THEN (IF same_polarity THEN "indirect_wealth" ELSE "direct_wealth")
        ELSE IF target_to_dm = "destroys"
        THEN (IF same_polarity THEN "seven_killings" ELSE "direct_officer")
        ELSE IF target_to_dm = "generates"
        THEN (IF same_polarity THEN "indirect_resource" ELSE "direct_resource")
        ELSE "friend"

(***************************************************************************)
(* Specification SpecTenGod: get_ten_god on every (Day Master, target)     *)
(* combination of element and polarity.                                    *)
(***************************************************************************)

InitTenGod ==
    /\ dm_element \in Element
    /\ dm_yin_yang \in YinYang
    /\ target_element \in Element
    /\ target_yin_yang \in YinYang
    /\ rel_dm_to_target = ""
    /\ rel_target_to_dm = ""
    /\ ten_god = ""
    /\ IdleExceptTenGod

GetTenGod ==
    /\ ten_god = ""
    /\ rel_dm_to_target' = get_element_relationships(dm_element, target_element)
    /\ rel_target_to_dm' = get_element_relationships(target_element, dm_element)
    /\ ten_god' = get_ten_god(dm_element, dm_yin_yang,
                              target_element, target_yin_yang)
    /\ UNCHANGED <<tenGodArgs, exceptTenGod>>

NextTenGod == GetTenGod

SpecTenGod == InitTenGod /\ [][NextTenGod]_vars

\* The five relationship rules of get_ten_god, in priority order
TenGodRuleHolds(r) ==
    CASE r = 1 -> rel_dm_to_target = "same"
      [] r = 2 -> rel_dm_to_target = "generates"
      [] r = 3 -> rel_dm_to_target = "destroys"
      [] r = 4 -> rel_target_to_dm = "destroys"
      [] r = 5 -> rel_target_to_dm = "generates"

\* The pair of Ten Gods of each rule: <<same polarity, different polarity>>
TenGodPair(r) ==
    CASE r = 1 -> <<"friend", "rob_wealth">>
      [] r = 2 -> <<"eating_god", "hurting_officer">>
      [] r = 3 -> <<"indirect_wealth", "direct_wealth">>
      [] r = 4 -> <<"seven_killings", "direct_officer">>
      [] r = 5 -> <<"indirect_resource", "direct_resource">>

\* C4: Ten-Gods totality: every combination is classified into one of the 10
\* categories, by exactly one of the five relationship rules, the polarity
\* choosing within the rule's pair; the fallback is never what decides.
C4_TenGodsTotality ==
    ten_god # "" =>
        /\ ten_god \in TEN_GODS
        /\ Cardinality({r \in 1..5 : TenGodRuleHolds(r)}) = 1
        /\ \A r \in 1..5 :
              TenGodRuleHolds(r) =>
                  ten_god = TenGodPair(r)[IF dm_yin_yang = target_yin_yang
                                          THEN 1 ELSE 2]

\* C4 witness: a Metal Yin target against a Wood Yang Day Master is decided
\* by the fourth rule (target destroys DM), different polarity.
C4_Witness ==
    /\ dm_element = "Wood" /\ dm_yin_yang = "Yang"
    /\ target_element = "Metal" /\ target_yin_yang = "Yin"
    /\ ten_god = "direct_officer"

\* C5: relationship exclusivity: generation is never mutual nor reflexive,
\* "same" is exactly equality, two different elements stand in exactly one
\* of the four directed relations, and "none" is returned only when the
\* relation exists in the reverse direction.
C5_RelationshipExclusivity ==
    ten_god # "" =>
        LET a == dm_element
            b == target_element
            ab == rel_dm_to_target
            ba == rel_target_to_dm
        IN  /\ Cardinality({i \in 1..4 :
                   CASE i = 1 -> ab = "generates"
                     [] i = 2 -> ba = "generates"
                     [] i = 3 -> a = b
                     [] i = 4 -> ab # "generates" /\ ba # "generates" /\ a # b})
                 = 1
            /\ ~(ab = "generates" /\ ba = "generates")
            /\ (ab = "same") = (a = b)
            /\ (a = b => ab # "generates" /\ ab # "destroys")
            /\ (a # b =>
                  Cardinality({i \in 1..4 :
                      CASE i = 1 -> ab = "generates"
                        [] i = 2 -> ba = "generates"
                        [] i = 3 -> ab = "destroys"
                        [] i = 4 -> ba = "destroys"}) = 1)
            /\ (ab = "none" => ba \in {"generates", "destroys"})

\* C5 witness: Earth -> Wood is "none" while Wood -> Earth is "destroys".
C5_Witness ==
    /\ dm_element = "Earth" /\ target_element = "Wood"
    /\ rel_dm_to_target = "none" /\ rel_target_to_dm = "destroys"

\* C6: GENERATION_CYCLE and DESTRUCTION_CYCLE are permutations of the five
\* elements without fixed point: the element at hand is a key of both, is
\* mapped to another element, and is the value of exactly one key of each.
C6_CyclesArePermutations ==
    ten_god # "" =>
        LET e == target_element
        IN  /\ GENERATION_CYCLE(e) \in Element \ {e}
            /\ DESTRUCTION_CYCLE(e) \in Element \ {e}
            /\ Cardinality({g \in Element : GENERATION_CYCLE(g) = e}) = 1
            /\ Cardinality({d \in Element : DESTRUCTION_CYCLE(d) = e}) = 1

\* C6 witness: Wood, whose one generator is Water and one destroyer is Metal.
C6_Witness ==
    /\ ten_god # ""
    /\ target_element = "Wood"
    /\ {g \in Element : GENERATION_CYCLE(g) = target_element} = {"Water"}
    /\ {d \in Element : DESTRUCTION_CYCLE(d) = target_element} = {"Metal"}

(***************************************************************************)
(* Use-God resolver: the relation tables and the choice of the four        *)
(* elements by strength class (use_god.py)                                 *)
(***************************************************************************)

\* RESOURCE_FOR.get(e, "")
RESOURCE_FOR(e) ==
    CASE e = "Wood" -> "Water"
      [] e = "Fire" -> "Wood"
      [] e = "Earth" -> "Fire"
      [] e = "Metal" -> "Earth"
      [] e = "Water" -> "Metal"
      [] OTHER -> ""

\* OUTPUT_OF.get(e, "")
OUTPUT_OF(e) ==
    CASE e = "Wood" -> "Fire"
      [] e = "Fire" -> "Earth"
      [] e = "Earth" -> "Metal"
      [] e = "Metal" -> "Water"
      [] e = "Water" -> "Wood"
      [] OTHER -> ""

\* Mutant of CONTROLLER_OF: the entry of Water copied from CONTROLLED_BY
CONTROLLER_OF_water_fire(e) ==
    CASE e = "Wood" -> "Metal"
      [] e = "Fire" -> "Water"
      [] e = "Earth" -> "Wood"
      [] e = "Metal" -> "Fire"
      [] e = "Water" -> "Fire"
      [] OTHER -> ""

\* CONTROLLER_OF.get(e, "")
CONTROLLER_OF(e) ==
    CASE e = "Wood" -> "Metal"
      [] e = "Fire" -> "Water"
      [] e = "Earth" -> "Wood"
      [] e = "Metal" -> "Fire"
      [] e = "Water" -> "Earth"
      [] OTHER -> ""

\* CONTROLLED_BY.get(e, "")
CONTROLLED_BY(e) ==
    CASE e = "Wood" -> "Earth"
      [] e = "Fire" -> "Metal"
      [] e = "Earth" -> "Water"
      [] e = "Metal" -> "Wood"
      [] e = "Water" -> "Fire"
      [] OTHER -> ""

DmStrength == {"strong", "weak", "balanced"}

\* Mutant of UseGodByStrength: a strong Day Master is given its Wealth
\* element as the secondary Use God
UseGodByStrength_wealth_secondary(day_master_element, dm_strength) ==
    LET resource == RESOURCE_FOR(day_master_element)
        output == OUTPUT_OF(day_master_element)
        controller == CONTROLLER_OF(day_master_element)
        controlled == CONTROLLED_BY(day_master_element)
    IN  IF dm_strength = "strong"
        THEN [dm_strength |-> dm_strength,
              use_god |-> output, use_god_secondary |-> controlled,
              avoid_god |-> day_master_element, avoid_god_secondary |-> resource]
        ELSE [dm_strength |-> dm_strength,
              use_god |-> resource, use_god_secondary |-> day_master_element,
              avoid_god |-> controller, avoid_god_secondary |-> output]

\* determine_use_god: the four elements chosen for a strength class
UseGodByStrength(day_master_element, dm_strength) ==
    LET resource == RESOURCE_FOR(day_master_element)
        output == OUTPUT_OF(day_master_element)
        controller == CONTROLLER_OF(day_master_element)
    IN  IF dm_strength = "strong"
        THEN [dm_strength |-> dm_strength,
              use_god |-> output, use_god_secondary |-> controller,
              avoid_god |-> day_master_element, avoid_god_secondary |-> resource]
        ELSE [dm_strength |-> dm_strength,
              use_god |-> resource, use_god_secondary |-> day_master_element,
              avoid_god |-> controller, avoid_god_secondary |-> output]

\* A chart without the "use_god" key: chart.get("use_god", {}) is {}
NoUseGod ==
    [dm_strength |-> "", use_god |-> "", use_god_secondary |-> "",
     avoid_god |-> "", avoid_god_secondary |-> ""]

(***************************************************************************)
(* Clash and combination of two branch indices (annual_luck.py)            *)
(***************************************************************************)

SIX_CLASHES == {<<0, 6>>, <<1, 7>>, <<2, 8>>, <<3, 9>>, <<4, 10>>, <<5, 11>>}

SIX_COMBINATIONS == {<<0, 1>>, <<2, 11>>, <<3, 10>>, <<4, 9>>, <<5, 8>>, <<6, 7>>}

_normalize_clash_pair(a, b) == <<IF a < b THEN a ELSE b, IF a < b THEN b ELSE a>>

\* Mutant of _is_clash: the pair is looked up as given
_is_clash_as_given(idx1, idx2) == <<idx1, idx2>> \in SIX_CLASHES

_is_clash(idx1, idx2) == _normalize_clash_pair(idx1, idx2) \in SIX_CLASHES

_is_combination(idx1, idx2) == _normalize_clash_pair(idx1, idx2) \in SIX_COMBINATIONS

(***************************************************************************)
(* Daily forecast scores (daily_forecast.py)                               *)
(***************************************************************************)

\* _PEACH_BLOSSOM, in insertion order: <<group, activating branch>>
_PEACH_BLOSSOM ==
    << <<{2, 6, 10}, 3>>, <<{5, 9, 1}, 6>>, <<{8, 0, 4}, 9>>, <<{11, 3, 7}, 0>> >>

_get_peach_blossom_branch(day_branch_idx) ==
    IF \E i \in 1..Len(_PEACH_BLOSSOM) : day_branch_idx \in _PEACH_BLOSSOM[i][1]
    THEN LET first == CHOOSE i \in 1..Len(_PEACH_BLOSSOM) :
                         /\ day_branch_idx \in _PEACH_BLOSSOM[i][1]
                         /\ \A j \in 1..(i - 1) : day_branch_idx \notin _PEACH_BLOSSOM[j][1]
         IN  _PEACH_BLOSSOM[first][2]
    ELSE -1

\* _get_natal_branch_indices: the indices of the pillars whose branch name is
\* known (-1 stands for a pillar without a known branch name), in pillar order
RECURSIVE _get_natal_branch_indices(_)
_get_natal_branch_indices(branches) ==
    IF branches = <<>> THEN <<>>
    ELSE (IF Head(branches) >= 0 THEN <<Head(branches)>> ELSE <<>>)
         \o _get_natal_branch_indices(Tail(branches))

\* for nb in natal_branch_indices: the sum of on_clash for every clash and of
\* on_combination for every combination with the daily branch
RECURSIVE BranchLoop(_, _, _, _)
BranchLoop(natal_branch_indices, daily_branch_idx, on_clash, on_combination) ==
    IF natal_branch_indices = <<>> THEN 0
    ELSE (IF _is_clash(daily_branch_idx, Head(natal_branch_indices))
          THEN on_clash ELSE 0)
         + (IF _is_combination(daily_branch_idx, Head(natal_branch_indices))
            THEN on_combination ELSE 0)
         + BranchLoop(Tail(natal_branch_indices), daily_branch_idx,
                      on_clash, on_combination)

Max(a, b) == IF a > b THEN a ELSE b
Min(a, b) == IF a < b THEN a ELSE b

\* max(0, min(100, int(round(score)))): every term added to the score is an
\* integer, so round and int leave it unchanged
Clamp(score) == Max(0, Min(100, score))

\* If(c, n): n if c else 0
If(c, n) == IF c THEN n ELSE 0

\* The score of calculate_overall_score before it is clamped
OverallRaw(dm_e, use_god, use_god_2, avoid_god, avoid_god_2, daily_elem, daily_branch_idx, natal_branch_indices) ==
    LET rel == get_element_relationships(daily_elem, dm_e)
        reverse == get_element_relationships(dm_e, daily_elem)
    IN  50
        + (IF daily_elem = use_god THEN 25
           ELSE IF daily_elem = use_god_2 THEN 15
           ELSE IF daily_elem = avoid_god THEN -20
           ELSE IF daily_elem = avoid_god_2 THEN -12
           ELSE 0)
        + (IF rel = "generates" THEN 10
           ELSE IF rel = "same" THEN 5
           ELSE IF rel = "destroys" THEN -10
           ELSE 0)
        + (IF reverse = "generates" THEN -3
           ELSE IF reverse = "destroys" THEN -5
           ELSE 0)
        + BranchLoop(natal_branch_indices, daily_branch_idx, -8, 8)

\* Mutant of calculate_overall_score: the result is not clamped from below
calculate_overall_score_no_floor(dm_e, use_god, use_god_2, avoid_god, avoid_god_2, daily_elem, daily_branch_idx, natal_branch_indices) ==
    Min(100, OverallRaw(dm_e, use_god, use_god_2, avoid_god, avoid_god_2,
                        daily_elem, daily_branch_idx, natal_branch_indices))

calculate_overall_score(dm_e, use_god, use_god_2, avoid_god, avoid_god_2, daily_elem, daily_branch_idx, natal_branch_indices) ==
    Clamp(OverallRaw(dm_e, use_god, use_god_2, avoid_god, avoid_god_2,
                     daily_elem, daily_branch_idx, natal_branch_indices))

calculate_domain_scores(dm_e, use_god, avoid_god, daily_elem, daily_branch_idx, natal_day_branch_idx, natal_branch_indices) ==
    LET wealth_elem == CONTROLLED_BY(dm_e)
        career_elem == CONTROLLER_OF(dm_e)
        resource_elem == RESOURCE_FOR(dm_e)
        output_elem == OUTPUT_OF(dm_e)
        pb_branch == _get_peach_blossom_branch(natal_day_branch_idx)
        love == 50
            + If(daily_branch_idx = pb_branch, 25)
            + If(daily_elem = resource_elem, 10)
            + If(daily_elem = dm_e, 5)
            + If(daily_elem = avoid_god, -12)
            + BranchLoop(natal_branch_indices, daily_branch_idx, -5, 6)
        wealth == 50
            + If(daily_elem = wealth_elem, 22)
            + If(daily_elem = use_god /\ wealth_elem = use_god, 8)
            + If(daily_elem = avoid_god, -15)
            + If(get_element_relationships(dm_e, daily_elem) = "destroys", 5)
            + BranchLoop(natal_branch_indices, daily_branch_idx, -6, 5)
        career == 50
            + If(daily_elem = career_elem, 20)
            + If(daily_elem = output_elem, 10)
            + If(daily_elem = avoid_god, -15)
            + If(daily_elem = use_god, 12)
            + BranchLoop(natal_branch_indices, daily_branch_idx, -6, 5)
        study == 50
            + If(daily_elem = resource_elem, 22)
            + If(daily_elem = dm_e, 5)
            + If(daily_elem = avoid_god, -12)
            + If(daily_elem = use_god, 10)
            + BranchLoop(natal_branch_indices, daily_branch_idx, -5, 4)
        social == 50
            + If(daily_elem = dm_e, 15)
            + If(daily_elem = output_elem, 12)
            + If(daily_branch_idx = pb_branch, 10)
            + If(daily_elem = avoid_god, -12)
            + BranchLoop(natal_branch_indices, daily_branch_idx, -6, 7)
    IN  [love |-> Clamp(love), wealth |-> Clamp(wealth), career |-> Clamp(career),
         study |-> Clamp(study), social |-> Clamp(social)]

\* calculate_daily_forecast: the target date, the overall score, the domains
calculate_daily_forecast(c, target_delta) ==
    LET dm_e == c.day_master
        use_god_elem == IF c.use_god = NoUseGod THEN dm_e ELSE c.use_god.use_god
        use_god_2 == c.use_god.use_god_secondary
        avoid_god_elem == c.use_god.avoid_god
        avoid_god_2 == c.use_god.avoid_god_secondary
        natal_branches == _get_natal_branch_indices(c.branches)
        natal_day_branch_idx == IF c.branches[3] >= 0 THEN c.branches[3] ELSE 0
        daily_pillar == get_daily_pillar(target_delta)
        daily_elem == get_stem_element(daily_pillar[1])
        daily_branch_idx == BRANCH_INDEX(daily_pillar[2])
    IN  [target_delta |-> target_delta,
         overall_score |->
             calculate_overall_score(dm_e, use_god_elem, use_god_2,
                 avoid_god_elem, avoid_god_2, daily_elem, daily_branch_idx,
                 natal_branches),
         domains |->
             calculate_domain_scores(dm_e, use_god_elem, avoid_god_elem,
                 daily_elem, daily_branch_idx, natal_day_branch_idx,
                 natal_branches)]

(***************************************************************************)
(* Specification SpecForecast: calculate_daily_forecast of a natal chart   *)
(* on a target date.                                                       *)
(***************************************************************************)

\* The natal branches range over NatalClashPairs clash pairs, counted down
\* from (4, 10): branch 10 has the peach blossom 3, which combines with 10
NatalClashPairs == 1

\* The target dates are _REFERENCE_DATE + 0, ..., + MaxTargetDelta days
MaxTargetDelta == 59

NatalBranchPool == UNION { {4 - k, 10 - k} : k \in 0..(NatalClashPairs - 1) }

\* The branch of each of the four pillars (year, month, day, hour): an index,
\* or -1 for a pillar whose branch name BRANCH_NAME_TO_INDEX does not know
NatalBranches ==
    { <<y, m, d, h>> : y \in NatalBranchPool \cup {-1}, m \in NatalBranchPool \cup {-1},
                       d \in NatalBranchPool \cup {-1}, h \in NatalBranchPool \cup {-1} }

InitForecast ==
    /\ \E dm \in Element, strength \in DmStrength \cup {""}, b \in NatalBranches :
          chart = [day_master |-> dm,
                   use_god |-> IF strength = "" THEN NoUseGod
                               ELSE UseGodByStrength(dm, strength),
                   branches |-> b]
    /\ forecast = NoForecast
    /\ IdleExceptForecast

CalculateDailyForecast ==
    /\ forecast = NoForecast
    /\ \E target_delta \in 0..MaxTargetDelta :
          forecast' = calculate_daily_forecast(chart, target_delta)
    /\ UNCHANGED <<chart, exceptForecast>>

NextForecast == CalculateDailyForecast

SpecForecast == InitForecast /\ [][NextForecast]_vars

ForecastScores ==
    {forecast.overall_score, forecast.domains.love, forecast.domains.wealth,
     forecast.domains.career, forecast.domains.study, forecast.domains.social}

\* C7: score clamping: the overall score and each of the five domain scores
\* of a forecast is an integer in 0..100.
C7_ScoresClamped ==
    forecast # NoForecast => ForecastScores \subseteq 0..100

\* C7 witness: the adversarial chart: the daily element is the Avoid God and
\* destroys the Day Master, and all four natal branches clash with the daily
\* branch; the overall score is clamped to 0.
C7_Witness ==
    /\ forecast # NoForecast
    /\ LET daily_pillar == get_daily_pillar(forecast.target_delta)
           daily_elem == get_stem_element(daily_pillar[1])
       IN  /\ daily_elem = chart.use_god.avoid_god
           /\ get_element_relationships(daily_elem, chart.day_master) = "destroys"
           /\ \A i \in 1..4 : _is_clash(BRANCH_INDEX(daily_pillar[2]), chart.branches[i])
    /\ forecast.overall_score = 0

(***************************************************************************)
(* The natal chart: month and hour pillars, element counts (calculator.py, *)
(* elements.py)                                                            *)
(***************************************************************************)

get_month_stem_branch(y, m) ==
    LET year_stem_pos == STEM_INDEX(get_year_stem_branch(y)[1])
        month_stem_base == year_stem_pos * 2
        month_stem_index == (month_stem_base + ((m - 1) % 12)) % 10
        month_branch_index == (m + 10) % 12
    IN  <<get_stem_by_index(month_stem_index), get_branch_by_index(month_branch_index)>>

\* Mutant of get_hour_stem_branch: the buckets of the comment in the code
\* (hours 0-1 ZI, 2-3 CHOU, ...)
get_hour_stem_branch_even_buckets(day_stem, hour) ==
    LET hour_branch_index == (hour % 24) \div 2
        hour_stem_base == (STEM_INDEX(day_stem) \div 2) * 2
        hour_stem_index == (hour_stem_base + (hour_branch_index \div 2)) % 10
    IN  <<get_stem_by_index(hour_stem_index), get_branch_by_index(hour_branch_index)>>

get_hour_stem_branch(day_stem, hour) ==
    LET hour_for_branch == hour % 24
        hour_branch_index ==
            IF hour_for_branch >= 23 \/ hour_for_branch < 1 THEN 0
            ELSE IF (hour_for_branch + 1) \div 2 > 11 THEN 11
            ELSE (hour_for_branch + 1) \div 2
        day_stem_pos == STEM_INDEX(day_stem)
        hour_stem_base == (day_stem_pos \div 2) * 2
        hour_stem_index == (hour_stem_base + (hour_branch_index \div 2)) % 10
    IN  <<get_stem_by_index(hour_stem_index), get_branch_by_index(hour_branch_index)>>

\* count_elements: the number of occurrences of each element in a list
count_elements(elements_list) ==
    [e \in Element |-> Cardinality({i \in 1..Len(elements_list) : elements_list[i] = e})]

\* calculate_bazi, up to the Day Master: the four pillars as <<stem, branch>>,
\* the element counts and the Day Master
NatalChart(y, m, d, birth_hour) ==
    LET day_p == get_day_stem_branch(y, m, d)
        four_pillars ==
            [year |-> get_year_stem_branch(y),
             month |-> get_month_stem_branch(y, m),
             day |-> day_p,
             hour |-> get_hour_stem_branch(day_p[1], birth_hour)]
        all_elements ==
            <<get_stem_element(four_pillars.year[1]), get_branch_element(four_pillars.year[2]),
              get_stem_element(four_pillars.month[1]), get_branch_element(four_pillars.month[2]),
              get_stem_element(four_pillars.day[1]), get_branch_element(four_pillars.day[2]),
              get_stem_element(four_pillars.hour[1]), get_branch_element(four_pillars.hour[2])>>
    IN  [four_pillars |-> four_pillars,
         day_master |-> [element |-> get_stem_element(day_p[1]),
                         yin_yang |-> get_stem_yin_yang(day_p[1])],
         elements |-> [counts |-> count_elements(all_elements)]]

\* The chart the scorer reads: the natal chart with its "use_god" entry
AnnotatedChart(natal, use_god) ==
    [four_pillars |-> natal.four_pillars, day_master |-> natal.day_master,
     elements |-> natal.elements, use_god |-> use_god]

(***************************************************************************)
(* Compatibility scorer (compatibility.py).  Scores are in tenths of a     *)
(* point: every score of the code is a multiple of 0.1.                    *)
(***************************************************************************)

SIX_HARMONIES == {{0, 1}, {2, 11}, {3, 10}, {4, 9}, {5, 8}, {6, 7}}

THREE_HARMONIES_GROUPS == {{8, 0, 4}, {11, 3, 7}, {2, 6, 10}, {5, 9, 1}}

COMPAT_SIX_CLASHES == {{0, 6}, {1, 7}, {2, 8}, {3, 9}, {4, 10}, {5, 11}}

SIX_HARMS == {{0, 7}, {1, 6}, {2, 5}, {3, 4}, {8, 11}, {9, 10}}

\* _branch_idx: BRANCH_NAME_TO_INDEX.get(name, -1) of a pillar <<stem, branch>>
_branch_idx(pillar) ==
    IF pillar[2] \in EarthlyBranch THEN BRANCH_INDEX(pillar[2]) ELSE -1

_is_harmony(a, b) == {a, b} \in SIX_HARMONIES

_is_three_harmony(a, b) == \E g \in THREE_HARMONIES_GROUPS : {a, b} \subseteq g

compat_is_clash(a, b) == {a, b} \in COMPAT_SIX_CLASHES

_is_harm(a, b) == {a, b} \in SIX_HARMS

\* Mutant of _score_branch_pair: the test idx_a == idx_b is left out
_score_branch_pair_no_same(idx_a, idx_b) ==
    IF idx_a < 0 \/ idx_b < 0 THEN <<120, "neutral">>
    ELSE IF _is_harmony(idx_a, idx_b) THEN <<250, "six_harmony">>
    ELSE IF _is_three_harmony(idx_a, idx_b) THEN <<200, "three_harmony">>
    ELSE IF _is_harm(idx_a, idx_b) THEN <<50, "six_harm">>
    ELSE IF compat_is_clash(idx_a, idx_b) THEN <<0, "six_clash">>
    ELSE <<120, "neutral">>

_score_branch_pair(idx_a, idx_b) ==
    IF idx_a < 0 \/ idx_b < 0 THEN <<120, "neutral">>
    ELSE IF idx_a = idx_b THEN <<180, "same">>
    ELSE IF _is_harmony(idx_a, idx_b) THEN <<250, "six_harmony">>
    ELSE IF _is_three_harmony(idx_a, idx_b) THEN <<200, "three_harmony">>
    ELSE IF _is_harm(idx_a, idx_b) THEN <<50, "six_harm">>
    ELSE IF compat_is_clash(idx_a, idx_b) THEN <<0, "six_clash">>
    ELSE <<120, "neutral">>

\* Mutant of _score_dm_interaction: generation looked up in one direction
_score_dm_interaction_one_direction(elem_a, elem_b) ==
    IF elem_a = elem_b THEN <<220, "same">>
    ELSE LET rel_ab == get_element_relationships(elem_a, elem_b)
             rel_ba == get_element_relationships(elem_b, elem_a)
         IN  IF rel_ab = "generates" THEN <<280, "generates">>
             ELSE IF rel_ab = "destroys" THEN <<100, "controls">>
             ELSE IF rel_ba = "destroys" THEN <<100, "controlled">>
             ELSE <<150, "neutral">>

_score_dm_interaction(elem_a, elem_b) ==
    IF elem_a = elem_b THEN <<220, "same">>
    ELSE LET rel_ab == get_element_relationships(elem_a, elem_b)
             rel_ba == get_element_relationships(elem_b, elem_a)
         IN  IF rel_ab = "generates" \/ rel_ba = "generates" THEN <<280, "generates">>
             ELSE IF rel_ab = "destroys" THEN <<100, "controls">>
             ELSE IF rel_ba = "destroys" THEN <<100, "controlled">>
             ELSE <<150, "neutral">>

\* sum(f[e] for e in the five elements)
SumOver(f) ==
    f["Wood"] + f["Fire"] + f["Earth"] + f["Metal"] + f["Water"]

\* _score_element_complement: with N = 5 * sum(v^2) - total^2 the variance is
\* N / 25 and the score 10 - 0.6 * N / 25; in tenths 100 - 6N/25, rounded to
\* the nearest integer (no value is halfway: 12N is even, 25(2k+1) is odd)
_score_element_complement(counts_a, counts_b) ==
    LET combined == [e \in Element |-> counts_a[e] + counts_b[e]]
        total == SumOver(combined)
        N == 5 * SumOver([e \in Element |-> combined[e] * combined[e]]) - total * total
        numerator == 2500 - 6 * N
    IN  IF total = 0 THEN 50
        ELSE IF numerator < 0 THEN 0
        ELSE (2 * numerator + 25) \div 50

\* counts.get(ug, 0): the count of an element, 0 for a key that is not one
CountOf(counts, ug) == IF ug \in DOMAIN counts THEN counts[ug] ELSE 0

_score_use_god_synergy(a, b) ==
    LET ug_a == a.use_god.use_god
        ug_b == b.use_god.use_god
        counts_a == a.elements.counts
        counts_b == b.elements.counts
        from_b == IF ug_a # "" /\ CountOf(counts_b, ug_a) >= 2 THEN 50
                  ELSE IF ug_a # "" /\ CountOf(counts_b, ug_a) >= 1 THEN 25
                  ELSE 0
        from_a == IF ug_b # "" /\ CountOf(counts_a, ug_b) >= 2 THEN 50
                  ELSE IF ug_b # "" /\ CountOf(counts_a, ug_b) >= 1 THEN 25
                  ELSE 0
    IN  Min(from_b + from_a, 100)

\* Mutant of _get_tier: excellent from 80
_get_tier_excellent_from_80(score) ==
    IF score >= 800 THEN "excellent"
    ELSE IF score >= 660 THEN "good"
    ELSE IF score >= 500 THEN "average"
    ELSE IF score >= 350 THEN "challenging"
    ELSE "difficult"

_get_tier(score) ==
    IF score >= 820 THEN "excellent"
    ELSE IF score >= 660 THEN "good"
    ELSE IF score >= 500 THEN "average"
    ELSE IF score >= 350 THEN "challenging"
    ELSE "difficult"

analyze_compatibility(a, b) ==
    LET dm == _score_dm_interaction(a.day_master.element, b.day_master.element)
        year_p == _score_branch_pair(_branch_idx(a.four_pillars.year),
                                     _branch_idx(b.four_pillars.year))
        day_p == _score_branch_pair(_branch_idx(a.four_pillars.day),
                                    _branch_idx(b.four_pillars.day))
        elem_score == _score_element_complement(a.elements.counts, b.elements.counts)
        ug_score == _score_use_god_synergy(a, b)
        total == dm[1] + year_p[1] + day_p[1] + elem_score + ug_score
    IN  [total_score |-> total,
         tier |-> _get_tier(total),
         dimensions |->
             <<[key |-> "day_master", score |-> dm[1], relationship |-> dm[2]],
               [key |-> "year_branch", score |-> year_p[1], relationship |-> year_p[2]],
               [key |-> "day_branch", score |-> day_p[1], relationship |-> day_p[2]],
               [key |-> "elements", score |-> elem_score, relationship |-> "balance"],
               [key |-> "use_god", score |-> ug_score, relationship |-> "synergy"]>>]

(***************************************************************************)
(* Specification SpecCompat: analyze_compatibility of two charts, in both  *)
(* orders.                                                                 *)
(***************************************************************************)

\* The two persons are born in the years GREGORIAN_EPOCH .. MaxBirthYear, on
\* the days 1 .. MaxBirthDay of January, in the hour of ZI: twelve years and
\* twelve days hold every year branch and every day branch
MaxBirthYear == 1911

MaxBirthDay == 12

\* The use_god entry of a chart: none, or the one of a strong or a weak Day
\* Master (a balanced one has the elements of a weak one)
CompatCharts ==
    { AnnotatedChart(NatalChart(y, 1, d, 0),
                     IF strength = "" THEN NoUseGod
                     ELSE UseGodByStrength(NatalChart(y, 1, d, 0).day_master.element, strength)) :
        y \in GREGORIAN_EPOCH..MaxBirthYear, d \in 1..MaxBirthDay,
        strength \in {"", "strong", "weak"} }

InitCompat ==
    /\ chart_a \in CompatCharts
    /\ chart_b \in CompatCharts
    /\ compat_ab = NoCompat
    /\ compat_ba = NoCompat
    /\ IdleExceptCompat

AnalyzeCompatibility ==
    /\ compat_ab = NoCompat
    /\ compat_ab' = analyze_compatibility(chart_a, chart_b)
    /\ compat_ba' = analyze_compatibility(chart_b, chart_a)
    /\ UNCHANGED <<chart_a, chart_b, exceptCompat>>

NextCompat == AnalyzeCompatibility

SpecCompat == InitCompat /\ [][NextCompat]_vars

\* C8: compatibility symmetry: the total score, the tier and each of the
\* five dimension scores are the same in both orders; the relationship
\* labels are the same too, except that the Day-Master label of one order may
\* be "controls" where the other has "controlled".
C8_CompatibilitySymmetry ==
    compat_ab # NoCompat =>
        /\ compat_ab.total_score = compat_ba.total_score
        /\ compat_ab.tier = compat_ba.tier
        /\ \A i \in 1..5 :
              /\ compat_ab.dimensions[i].key = compat_ba.dimensions[i].key
              /\ compat_ab.dimensions[i].score = compat_ba.dimensions[i].score
              /\ \/ compat_ab.dimensions[i].relationship = compat_ba.dimensions[i].relationship
                 \/ /\ i = 1
                    /\ {compat_ab.dimensions[i].relationship,
                        compat_ba.dimensions[i].relationship} = {"controls", "controlled"}

\* C8 witness: two different charts whose Day Masters control one another,
\* whose year branches clash, whose day branches are in harmony and whose
\* Use Gods the partner holds: the labels differ, the scores do not.
C8_Witness ==
    /\ compat_ab # NoCompat
    /\ compat_ab.dimensions[1].relationship = "controls"
    /\ compat_ba.dimensions[1].relationship = "controlled"
    /\ compat_ab.dimensions[2].relationship = "six_clash"
    /\ compat_ab.dimensions[3].relationship = "six_harmony"
    /\ compat_ab.dimensions[5].score > 0
    /\ compat_ab.total_score = compat_ba.total_score

\* C9: identical charts: the Day-Master dimension is "same" with score 22,
\* the year-branch and the day-branch dimensions are "same" with score 18.
C9_IdenticalCharts ==
    (compat_ab # NoCompat /\ chart_a = chart_b) =>
        /\ compat_ab.dimensions[1].relationship = "same"
        /\ compat_ab.dimensions[1].score = 220
        /\ compat_ab.dimensions[2].relationship = "same"
        /\ compat_ab.dimensions[2].score = 180
        /\ compat_ab.dimensions[3].relationship = "same"
        /\ compat_ab.dimensions[3].score = 180

\* C9 witness: a chart compared with itself whose day branch is SI, which
\* is in a three-harmony group and in a harm pair, and whose year branch is WU
C9_Witness ==
    /\ compat_ab # NoCompat
    /\ chart_a = chart_b
    /\ chart_a.four_pillars.day[2] = "SI"
    /\ chart_a.four_pillars.year[2] = "WU_BRANCH"
    /\ compat_ab.dimensions[3] = [key |-> "day_branch", score |-> 180, relationship |-> "same"]

(***************************************************************************)
(* calculate_bazi and the annual luck it embeds (calculator.py,            *)
(* annual_luck.py)                                                         *)
(***************************************************************************)

PillarNames == <<"year", "month", "day", "hour">>

\* _get_luck_direction: 1 forward, -1 backward
_get_luck_direction(gender, year_stem) ==
    LET is_yang == get_stem_yin_yang(year_stem) = "Yang"
        is_male == Lower(gender) = "male"
    IN  IF (is_male /\ is_yang) \/ (~is_male /\ ~is_yang) THEN 1 ELSE -1

\* calculate_annual_luck: the loop over the pillars from the i-th on
RECURSIVE AnnualInteractions(_, _, _, _)
AnnualInteractions(four_pillars, annual_branch_idx, lang, i) ==
    IF i > Len(PillarNames) THEN <<>>
    ELSE LET pillar_name == PillarNames[i]
             pillar_branch_idx == _branch_idx(four_pillars[pillar_name])
             clash ==
                 IF pillar_branch_idx >= 0 /\ _is_clash(annual_branch_idx, pillar_branch_idx)
                 THEN <<[type |-> "Clash", pillar |-> pillar_name, lang |-> lang]>>
                 ELSE <<>>
             combination ==
                 IF pillar_branch_idx >= 0 /\ _is_combination(annual_branch_idx, pillar_branch_idx)
                 THEN <<[type |-> "Combination", pillar |-> pillar_name, lang |-> lang]>>
                 ELSE <<>>
         IN  clash \o combination
             \o AnnualInteractions(four_pillars, annual_branch_idx, lang, i + 1)

\* calculate_annual_luck(four_pillars, year, language); a year of None is
\* replaced by datetime.now().year, the argument now_year
calculate_annual_luck(four_pillars, yr, language, now_year) ==
    LET the_year == IF yr = "None" THEN now_year ELSE yr
        pillar == annual_get_year_stem_branch(the_year)
        annual_branch_idx == _branch_idx(pillar)
        lang == IF language \in {"en", "zh-TW", "zh-CN", "ko"} THEN language ELSE "en"
    IN  [annual_pillar |-> [stem |-> pillar[1], branch |-> pillar[2], year |-> the_year],
         interactions |->
             IF annual_branch_idx < 0 THEN <<>>
             ELSE AnnualInteractions(four_pillars, annual_branch_idx, lang, 1)]

\* stems_branches.py: the dictionary of a stem, of a branch
stem_to_dict(stem) ==
    [name_cn |-> stem, element |-> get_stem_element(stem),
     yin_yang |-> get_stem_yin_yang(stem)]

branch_to_dict(branch) ==
    [name_cn |-> branch, element |-> get_branch_element(branch),
     yin_yang |-> get_branch_yin_yang(branch)]

\* Mutant of PeriodAges: a period of eleven years
PeriodAges_eleven_years(i) ==
    LET start_age_base == 8
        start_age == start_age_base + i * 10
    IN  [start_age |-> start_age, end_age |-> start_age + 10]

\* calculate_age_periods: the age range of period i
PeriodAges(i) ==
    LET start_age_base == 8
        start_age == start_age_base + i * 10
    IN  [start_age |-> start_age, end_age |-> start_age + 9]

\* Mutant of LuckPillarAt: only the branch is stepped
LuckPillarAt_branch_only(year_stem_index, year_branch_index, offset) ==
    <<get_stem_by_index(year_stem_index % 10),
      get_branch_by_index((year_branch_index + offset) % 12)>>

\* calculate_age_periods: the luck pillar offset steps from the Year pillar
LuckPillarAt(year_stem_index, year_branch_index, offset) ==
    <<get_stem_by_index((year_stem_index + offset) % 10),
      get_branch_by_index((year_branch_index + offset) % 12)>>

\* Mutant of LuckScore: the reverse relationship is never consulted
LuckScore_no_reverse(luck_element, day_master_element) ==
    LET relationship == get_element_relationships(luck_element, day_master_element)
    IN  IF relationship = "same" THEN 2
        ELSE IF relationship = "generates" THEN 2
        ELSE IF relationship = "destroys" THEN -2
        ELSE 0

\* calculate_age_periods: "Simple scoring heuristic"
LuckScore(luck_element, day_master_element) ==
    LET relationship == get_element_relationships(luck_element, day_master_element)
        reverse_rel == get_element_relationships(day_master_element, luck_element)
    IN  IF relationship = "same" THEN 2
        ELSE IF relationship = "generates" THEN 2
        ELSE IF reverse_rel = "generates" THEN 1
        ELSE IF relationship = "destroys" THEN -2
        ELSE IF reverse_rel = "destroys" THEN -1
        ELSE 0

\* calculate_age_periods; the texts and the domain emphasis of a period are
\* functions of the fields kept here and of the language
calculate_age_periods(birth_date, gender, year_stem, year_branch, day_master_element, language) ==
    LET num_periods == 8
        direction == _get_luck_direction(gender, year_stem)
        year_stem_index == STEM_INDEX(year_stem)
        year_branch_index == BRANCH_INDEX(year_branch)
    IN  [n \in 1..num_periods |->
            LET i == n - 1
                ages == PeriodAges(i)
                luck == LuckPillarAt(year_stem_index, year_branch_index, (i + 1) * direction)
                luck_element == get_stem_element(luck[1])
                score == LuckScore(luck_element, day_master_element)
            IN  [start_age |-> ages.start_age,
                 end_age |-> ages.end_age,
                 start_year |-> birth_date[1] + ages.start_age,
                 end_year |-> birth_date[1] + ages.end_age,
                 luck_pillar |-> [stem |-> stem_to_dict(luck[1]),
                                  branch |-> branch_to_dict(luck[2])],
                 main_element |-> luck_element,
                 day_master_element |-> day_master_element,
                 relationship_to_day_master |->
                     get_element_relationships(luck_element, day_master_element),
                 luck_score |-> score,
                 quality |-> IF score >= 2 THEN "very_auspicious"
                             ELSE IF score = 1 THEN "auspicious"
                             ELSE IF score = 0 THEN "neutral"
                             ELSE IF score = -1 THEN "challenging"
                             ELSE "very_challenging",
                 favorable |-> score >= 1]]

\* calculate_bazi(birth_date_str, birth_hour, gender, language), called while
\* the system clock reads the year now_year
calculate_bazi(birth_date, birth_hour, gender, language, now_year) ==
    LET natal == NatalChart(birth_date[1], birth_date[2], birth_date[3], birth_hour)
    IN  [success |-> TRUE,
         input |-> [birth_date |-> birth_date, birth_hour |-> birth_hour, gender |-> gender],
         four_pillars |-> natal.four_pillars,
         day_master |-> natal.day_master,
         elements |-> natal.elements,
         luck_direction |-> _get_luck_direction(gender, natal.four_pillars.year[1]),
         annual_luck |-> calculate_annual_luck(natal.four_pillars, "None", language, now_year),
         age_periods |-> calculate_age_periods(birth_date, gender, natal.four_pillars.year[1],
                                               natal.four_pillars.year[2],
                                               get_stem_element(natal.four_pillars.day[1]),
                                               language)]

(***************************************************************************)
(* Specification SpecBazi: repeated invocations of calculate_bazi with the *)
(* same arguments while the system clock advances.                         *)
(***************************************************************************)

\* The years the system clock reads
FirstClockYear == 2024

MaxClockYear == 2026

\* The number of invocations
MaxInvocations == 2

BirthHours == {0, 13, 23}

InitBazi ==
    /\ bazi_input \in
          [birth_date : {<<y, 1, d>> : y \in GREGORIAN_EPOCH..MaxBirthYear, d \in 1..MaxBirthDay},
           birth_hour : BirthHours,
           gender : {"male", "female"},
           language : {"en", "zh-TW"}]
    /\ clock_year \in FirstClockYear..MaxClockYear
    /\ bazi_results = <<>>
    /\ IdleExceptBazi

CalculateBazi ==
    /\ Len(bazi_results) < MaxInvocations
    /\ bazi_results' =
          Append(bazi_results,
                 calculate_bazi(bazi_input.birth_date, bazi_input.birth_hour,
                                bazi_input.gender, bazi_input.language, clock_year))
    /\ UNCHANGED <<bazi_input, clock_year, exceptBazi>>

\* New Year's Eve passes: datetime.now().year is one more
NewYear ==
    /\ clock_year < MaxClockYear
    /\ clock_year' = clock_year + 1
    /\ UNCHANGED <<bazi_input, bazi_results, exceptBazi>>

NextBazi == CalculateBazi \/ NewYear

SpecBazi == InitBazi /\ [][NextBazi]_vars

\* C10: determinism of calculate_bazi: two invocations with equal
\* (birth_date, birth_hour, gender, language) return equal charts in every
\* field, whatever the system clock reads at the time of each call.
C10_CalculateBaziDeterministic ==
    \A i, j \in 1..Len(bazi_results) : bazi_results[i] = bazi_results[j]

(***************************************************************************)
(* Specification SpecBaziContract: calculate_bazi called with any integer  *)
(* hour and any gender string, in and out of the documented contract       *)
(* (birth_hour 0-23, gender "male" or "female").                           *)
(***************************************************************************)

\* The hours passed range over -1 .. MaxInputHour
MaxInputHour == 25

ContractHours == 0..23

ContractGenders == {"male", "female"}

InitBaziContract ==
    /\ bazi_input \in
          [birth_date : {<<y, 1, 1>> : y \in GREGORIAN_EPOCH..MaxBirthYear},
           birth_hour : (-1)..MaxInputHour,
           gender : ContractGenders \cup {"other", ""},
           language : {"en"}]
    /\ clock_year \in FirstClockYear..MaxClockYear
    /\ bazi_results = <<>>
    /\ IdleExceptBazi

SpecBaziContract == InitBaziContract /\ [][NextBazi]_vars

\* C11: fail fast: calculate_bazi called with birth_hour outside 0..23 or
\* with a gender other than "male" / "female" returns success = false, never
\* a successful chart.
C11_FailFast ==
    (bazi_input.birth_hour \notin ContractHours \/ bazi_input.gender \notin ContractGenders) =>
        \A i \in 1..Len(bazi_results) : bazi_results[i].success = FALSE

(***************************************************************************)
(* The chart's four_pillars dict and its annotation passes                 *)
(* (stems_branches.py, hidden_stems.py, ten_gods.py).  name_cn holds the   *)
(* enum member; name_pinyin and zodiac are carried by it.                  *)
(***************************************************************************)

\* calculate_bazi: "Convert to dictionary format"
FourPillarsDict(fp) ==
    [p \in {"year", "month", "day", "hour"} |->
        [stem |-> stem_to_dict(fp[p][1]), branch |-> branch_to_dict(fp[p][2])]]

\* BRANCH_HIDDEN_STEMS.get(branch, [])
BRANCH_HIDDEN_STEMS(branch) ==
    CASE branch = "ZI" -> <<"REN">>
      [] branch = "CHOU" -> <<"JI", "GUI", "XIN">>
      [] branch = "YIN" -> <<"WU", "JIA", "BING">>
      [] branch = "MAO" -> <<"YI">>
      [] branch = "CHEN" -> <<"WU", "YI", "GUI">>
      [] branch = "SI" -> <<"GENG", "BING", "WU">>
      [] branch = "WU_BRANCH" -> <<"DING", "JI">>
      [] branch = "WEI" -> <<"JI", "DING", "YI">>
      [] branch = "SHEN" -> <<"WU", "GENG", "REN">>
      [] branch = "YOU" -> <<"XIN">>
      [] branch = "XU" -> <<"XIN", "DING", "WU">>
      [] branch = "HAI" -> <<"REN", "JIA">>
      [] OTHER -> <<>>

get_hidden_stems(branch) ==
    [i \in 1..Len(BRANCH_HIDDEN_STEMS(branch)) |-> stem_to_dict(BRANCH_HIDDEN_STEMS(branch)[i])]

\* d[key] = value on a dict
SetItem(d, key, value) == (key :> value) @@ d

\* Mutant of annotate_four_pillars_with_hidden_stems: a branch that already
\* has hidden_stems keeps only the first of them
annotate_four_pillars_with_hidden_stems_keep_first(four_pillars) ==
    [p \in DOMAIN four_pillars |->
        LET branch_dict == four_pillars[p].branch
        IN  IF branch_dict.name_cn \in EarthlyBranch
            THEN [stem |-> four_pillars[p].stem,
                  branch |-> SetItem(branch_dict, "hidden_stems",
                                IF "hidden_stems" \in DOMAIN branch_dict
                                THEN SubSeq(branch_dict.hidden_stems, 1, 1)
                                ELSE get_hidden_stems(branch_dict.name_cn))]
            ELSE four_pillars[p]]

annotate_four_pillars_with_hidden_stems(four_pillars) ==
    [p \in DOMAIN four_pillars |->
        LET branch_dict == four_pillars[p].branch
        IN  IF branch_dict.name_cn \in EarthlyBranch
            THEN [stem |-> four_pillars[p].stem,
                  branch |-> SetItem(branch_dict, "hidden_stems",
                                     get_hidden_stems(branch_dict.name_cn))]
            ELSE four_pillars[p]]

\* get_ten_god returns TEN_GODS[key].copy(); the dict is carried by its key
annotate_four_pillars_with_ten_gods(four_pillars, day_master) ==
    [p \in DOMAIN four_pillars |->
        LET stem == four_pillars[p].stem
            branch == four_pillars[p].branch
        IN  [stem |-> SetItem(stem, "ten_god",
                         [key |-> get_ten_god(day_master.element, day_master.yin_yang,
                                              stem.element, stem.yin_yang)]),
             branch |-> SetItem(branch, "ten_god",
                         [key |-> get_ten_god(day_master.element, day_master.yin_yang,
                                              branch.element, branch.yin_yang)])]]

\* get_strongest_ten_god: the keys it tallies, in the order of the loop over
\* the pillars from the i-th on.  For the day pillar the loop "continue"s at
\* the stem, before it comes to the branch.
RECURSIVE TalliedKeys(_, _)
TalliedKeys(four_pillars, i) ==
    IF i > Len(PillarNames) THEN <<>>
    ELSE LET pillar_name == PillarNames[i]
             stem == four_pillars[pillar_name].stem
             branch == four_pillars[pillar_name].branch
             of_branch == IF "ten_god" \in DOMAIN branch
                          THEN <<branch.ten_god.key>> ELSE <<>>
             of_pillar ==
                 IF "ten_god" \in DOMAIN stem
                 THEN (IF pillar_name = "day" THEN <<>>
                       ELSE <<stem.ten_god.key>> \o of_branch)
                 ELSE of_branch
         IN  of_pillar \o TalliedKeys(four_pillars, i + 1)

\* The number of occurrences of a key in a sequence of keys
CountKey(keys, key) == Cardinality({i \in 1..Len(keys) : keys[i] = key})

\* max(counts, key=counts.get): the first key, in insertion order, with the
\* largest count
get_strongest_ten_god(four_pillars) ==
    LET keys == TalliedKeys(four_pillars, 1)
    IN  IF keys = <<>> THEN [strongest_ten_god |-> "friend", count |-> 0]
        ELSE LET first == CHOOSE i \in 1..Len(keys) :
                     /\ \A j \in 1..Len(keys) : CountKey(keys, keys[j]) <= CountKey(keys, keys[i])
                     /\ \A j \in 1..(i - 1) : CountKey(keys, keys[j]) < CountKey(keys, keys[i])
             IN  [strongest_ten_god |-> keys[first], count |-> CountKey(keys, keys[first])]

(***************************************************************************)
(* Seasonal strength and the Day-Master strength score                     *)
(* (seasonal_strength.py, use_god.py).  The score is kept in halves: every *)
(* term of the code is a multiple of 0.5.                                  *)
(***************************************************************************)

\* ELEMENT_SEASON_BRANCHES[e]
ELEMENT_SEASON_BRANCHES(e) ==
    CASE e = "Wood" -> {2, 3}
      [] e = "Fire" -> {5, 6}
      [] e = "Metal" -> {8, 9}
      [] e = "Water" -> {11, 0}
      [] e = "Earth" -> {1, 4, 7, 10}

\* Mutant of ELEMENT_OPPOSITE_BRANCHES: Wood is given the window of Metal's
\* opposite, its own season
ELEMENT_OPPOSITE_BRANCHES_wood_spring(e) ==
    CASE e = "Wood" -> {2, 3}
      [] e = "Fire" -> {11, 0}
      [] e = "Metal" -> {2, 3}
      [] e = "Water" -> {5, 6}
      [] OTHER -> {}

\* ELEMENT_OPPOSITE_BRANCHES.get(e, [])
ELEMENT_OPPOSITE_BRANCHES(e) ==
    CASE e = "Wood" -> {8, 9}
      [] e = "Fire" -> {11, 0}
      [] e = "Metal" -> {2, 3}
      [] e = "Water" -> {5, 6}
      [] OTHER -> {}

\* get_seasonal_strength(...)["strength"]
get_seasonal_strength(day_master_element, month_branch_index) ==
    IF day_master_element \notin Element THEN "neutral"
    ELSE IF month_branch_index \in ELEMENT_SEASON_BRANCHES(day_master_element) THEN "strong"
    ELSE IF month_branch_index \in ELEMENT_OPPOSITE_BRANCHES(day_master_element) THEN "weak"
    ELSE "neutral"

\* The positions _calculate_dm_strength_score walks: every stem and branch
\* except the day stem, in the order of the loop
StrengthPositions(four_pillars) ==
    <<four_pillars["year"].stem, four_pillars["year"].branch,
      four_pillars["month"].stem, four_pillars["month"].branch,
      four_pillars["day"].branch,
      four_pillars["hour"].stem, four_pillars["hour"].branch>>

\* The term one position adds to the score, in halves
PositionTerm(elem, day_master_element) ==
    IF elem = "" THEN 0
    ELSE IF elem = day_master_element THEN 2
    ELSE IF elem = RESOURCE_FOR(day_master_element) THEN 1
    ELSE IF elem = CONTROLLER_OF(day_master_element) THEN -2
    ELSE IF elem = OUTPUT_OF(day_master_element) THEN -1
    ELSE 0

RECURSIVE SumTerms(_, _)
SumTerms(positions, day_master_element) ==
    IF positions = <<>> THEN 0
    ELSE PositionTerm(Head(positions).element, day_master_element)
         + SumTerms(Tail(positions), day_master_element)

SeasonalTerm(seasonal_strength_str) ==
    IF seasonal_strength_str = "strong" THEN 4
    ELSE IF seasonal_strength_str = "weak" THEN -4
    ELSE 0

\* Mutant of _calculate_dm_strength_score: the day stem is walked too
_calculate_dm_strength_score_with_day_stem(day_master_element, element_counts, seasonal_strength_str, four_pillars) ==
    SeasonalTerm(seasonal_strength_str)
    + SumTerms(<<four_pillars["day"].stem>> \o StrengthPositions(four_pillars),
               day_master_element)

_calculate_dm_strength_score(day_master_element, element_counts, seasonal_strength_str, four_pillars) ==
    SeasonalTerm(seasonal_strength_str)
    + SumTerms(StrengthPositions(four_pillars), day_master_element)

\* determine_use_god; dm_strength_score is in halves (3 stands for 1.5)
determine_use_god(day_master_element, element_counts, seasonal_strength_str, four_pillars) ==
    LET score == _calculate_dm_strength_score(day_master_element, element_counts,
                                              seasonal_strength_str, four_pillars)
        dm_strength == IF score >= 3 THEN "strong"
                       ELSE IF score <= -3 THEN "weak"
                       ELSE "balanced"
        chosen == UseGodByStrength(day_master_element, dm_strength)
    IN  [dm_strength |-> dm_strength,
         dm_strength_score |-> score,
         use_god |-> chosen.use_god,
         use_god_secondary |-> chosen.use_god_secondary,
         avoid_god |-> chosen.avoid_god,
         avoid_god_secondary |-> chosen.avoid_god_secondary]

\* calculate_bazi: element_counts of the four pillars
ElementCounts(four_pillars) ==
    count_elements(<<four_pillars["year"].stem.element, four_pillars["year"].branch.element,
                     four_pillars["month"].stem.element, four_pillars["month"].branch.element,
                     four_pillars["day"].stem.element, four_pillars["day"].branch.element,
                     four_pillars["hour"].stem.element, four_pillars["hour"].branch.element>>)

\* calculate_bazi: month_branch_index, 0 for an unknown branch name
MonthBranchIndex(four_pillars) ==
    IF four_pillars["month"].branch.name_cn \in EarthlyBranch
    THEN BRANCH_INDEX(four_pillars["month"].branch.name_cn) ELSE 0

(***************************************************************************)
(* Specification SpecChart: the passes calculate_bazi runs over the four   *)
(* pillars of a birth input.                                               *)
(***************************************************************************)

\* calculate_bazi: day_master_dict, read from the day stem
DayMasterDict(four_pillars) ==
    [element |-> four_pillars["day"].stem.element,
     yin_yang |-> four_pillars["day"].stem.yin_yang]

InitChart ==
    /\ \E y \in GREGORIAN_EPOCH..MaxBirthYear, m \in 1..12, d \in 1..MaxBirthDay, h \in BirthHours :
          natal_pillars = FourPillarsDict(NatalChart(y, m, d, h).four_pillars)
    /\ strongest_ten_god = NoStrongest
    /\ seasonal_strength = ""
    /\ use_god_result = NoUseGodResult
    /\ IdleExceptChart

AnnotateHiddenStems ==
    /\ natal_pillars' = annotate_four_pillars_with_hidden_stems(natal_pillars)
    /\ UNCHANGED <<strongest_ten_god, seasonal_strength, use_god_result, exceptChart>>

\* calculate_bazi tallies the Ten Gods after it has annotated them
AnnotateTenGods ==
    /\ strongest_ten_god = NoStrongest
    /\ natal_pillars' =
          annotate_four_pillars_with_ten_gods(natal_pillars, DayMasterDict(natal_pillars))
    /\ UNCHANGED <<strongest_ten_god, seasonal_strength, use_god_result, exceptChart>>

GetStrongestTenGod ==
    /\ strongest_ten_god = NoStrongest
    /\ strongest_ten_god' = get_strongest_ten_god(natal_pillars)
    /\ UNCHANGED <<natal_pillars, seasonal_strength, use_god_result, exceptChart>>

GetSeasonalStrength ==
    /\ seasonal_strength = ""
    /\ seasonal_strength' =
          get_seasonal_strength(DayMasterDict(natal_pillars).element,
                                MonthBranchIndex(natal_pillars))
    /\ UNCHANGED <<natal_pillars, strongest_ten_god, use_god_result, exceptChart>>

\* The Use God is resolved after the seasonal strength, from its "strength"
DetermineUseGod ==
    /\ seasonal_strength # ""
    /\ use_god_result = NoUseGodResult
    /\ use_god_result' =
          determine_use_god(DayMasterDict(natal_pillars).element,
                            ElementCounts(natal_pillars), seasonal_strength,
                            natal_pillars)
    /\ UNCHANGED <<natal_pillars, strongest_ten_god, seasonal_strength, exceptChart>>

NextChart ==
    \/ AnnotateHiddenStems
    \/ AnnotateTenGods
    \/ GetStrongestTenGod
    \/ GetSeasonalStrength
    \/ DetermineUseGod

SpecChart == InitChart /\ [][NextChart]_vars

\* The Ten-God keys of the seven positions other than the Day stem
SevenPositionKeys ==
    <<natal_pillars["year"].stem.ten_god.key, natal_pillars["year"].branch.ten_god.key,
      natal_pillars["month"].stem.ten_god.key, natal_pillars["month"].branch.ten_god.key,
      natal_pillars["day"].branch.ten_god.key,
      natal_pillars["hour"].stem.ten_god.key, natal_pillars["hour"].branch.ten_god.key>>

\* C12: the strongest Ten God is the most frequent one over the seven
\* positions other than the Day stem (the Day branch included): its count
\* is the largest count of a key over these seven positions.
C12_StrongestOverSevenPositions ==
    (strongest_ten_god # NoStrongest /\ "ten_god" \in DOMAIN natal_pillars["day"].stem) =>
        /\ strongest_ten_god.count =
              CountKey(SevenPositionKeys, strongest_ten_god.strongest_ten_god)
        /\ \A k \in TEN_GODS : CountKey(SevenPositionKeys, k) <= strongest_ten_god.count

\* The element of the Day Master of the chart
ChartDayMaster == natal_pillars["day"].stem.element

\* The term of one position as the claim words it, by the relationship of
\* the position's element to the Day Master, in halves
ClaimedTerm(elem) ==
    IF elem = ChartDayMaster THEN 2
    ELSE IF get_element_relationships(elem, ChartDayMaster) = "generates" THEN 1
    ELSE IF get_element_relationships(elem, ChartDayMaster) = "destroys" THEN -2
    ELSE IF get_element_relationships(ChartDayMaster, elem) = "generates" THEN -1
    ELSE 0

\* The element that stands in a relationship to the Day Master
ElementThat(rel_to_dm, rel_from_dm) ==
    CHOOSE e \in Element :
        /\ get_element_relationships(e, ChartDayMaster) = rel_to_dm
        /\ get_element_relationships(ChartDayMaster, e) = rel_from_dm

\* C13: the strength score is the seasonal term (+2 / 0 / -2) plus, over the
\* seven positions other than the Day stem, +1 same element, +0.5 Resource,
\* -1 Controller, -0.5 Output; score >= 1.5 is strong (use Output, then
\* Controller; avoid the Day Master's element, then Resource), score <= -1.5
\* is weak (use Resource, then the Day Master's element; avoid Controller,
\* then Output), anything else is balanced with use_god = Resource.
C13_StrengthScoreAndUseGod ==
    use_god_result # NoUseGodResult =>
        LET elems == [i \in 1..7 |-> StrengthPositions(natal_pillars)[i].element]
            score == (CASE seasonal_strength = "strong" -> 4
                        [] seasonal_strength = "weak" -> -4
                        [] OTHER -> 0)
                     + ClaimedTerm(elems[1]) + ClaimedTerm(elems[2]) + ClaimedTerm(elems[3])
                     + ClaimedTerm(elems[4]) + ClaimedTerm(elems[5]) + ClaimedTerm(elems[6])
                     + ClaimedTerm(elems[7])
            Resource == ElementThat("generates", "none")
            Output == ElementThat("none", "generates")
            Controller == ElementThat("destroys", "none")
        IN  /\ use_god_result.dm_strength_score = score
            /\ score >= 3 =>
                  /\ use_god_result.dm_strength = "strong"
                  /\ use_god_result.use_god = Output
                  /\ use_god_result.use_god_secondary = Controller
                  /\ use_god_result.avoid_god = ChartDayMaster
                  /\ use_god_result.avoid_god_secondary = Resource
            /\ score <= -3 =>
                  /\ use_god_result.dm_strength = "weak"
                  /\ use_god_result.use_god = Resource
                  /\ use_god_result.use_god_secondary = ChartDayMaster
                  /\ use_god_result.avoid_god = Controller
                  /\ use_god_result.avoid_god_secondary = Output
            /\ (-3 < score /\ score < 3) =>
                  /\ use_god_result.dm_strength = "balanced"
                  /\ use_god_result.use_god = Resource

\* C13 witness: a Day Master out of season whose score is exactly -1.5, the
\* threshold of weak, and one in season that is strong
C13_Witness ==
    /\ use_god_result # NoUseGodResult
    /\ seasonal_strength = "weak"
    /\ use_god_result.dm_strength_score = -3
    /\ use_god_result.dm_strength = "weak"

PILLAR_SIX_COMBINATIONS == {{0, 1}, {2, 11}, {3, 10}, {4, 9}, {5, 8}, {6, 7}}

\* Mutant of PILLAR_SIX_CLASHES: 子丑 in the place of 子午
PILLAR_SIX_CLASHES_zi_chou == {{0, 1}, {1, 7}, {2, 8}, {3, 9}, {4, 10}, {5, 11}}

PILLAR_SIX_CLASHES == {{0, 6}, {1, 7}, {2, 8}, {3, 9}, {4, 10}, {5, 11}}

PILLAR_SIX_HARMS == {{0, 7}, {1, 6}, {2, 5}, {3, 4}, {8, 11}, {9, 10}}

\* THREE_HARMONIES, in the order of the dict
THREE_HARMONIES == <<{8, 0, 4}, {11, 3, 7}, {2, 6, 10}, {5, 9, 1}>>

THREE_PUNISHMENT_GROUPS == <<{2, 5, 8}, {1, 7, 10}>>

PAIR_PUNISHMENTS == {{0, 3}}

SELF_PUNISHMENT == {0, 6, 9, 11}

STEM_COMBINATIONS == {{0, 5}, {1, 6}, {2, 7}, {3, 8}, {4, 9}}

\* _extract_branches: {pillar_name: branch_index} of the pillars whose
\* branch name is known
_extract_branches(four_pillars) ==
    [pn \in {p \in DOMAIN four_pillars : four_pillars[p].branch.name_cn \in EarthlyBranch} |->
        BRANCH_INDEX(four_pillars[pn].branch.name_cn)]

_extract_stems(four_pillars) ==
    [pn \in {p \in DOMAIN four_pillars : four_pillars[p].stem.name_cn \in HeavenlyStem} |->
        STEM_INDEX(four_pillars[pn].stem.name_cn)]

\* for i in range(4): for j in range(i + 1, 4), in the order of the loops
PillarPairs ==
    <<<<"year", "month">>, <<"year", "day">>, <<"year", "hour">>,
      <<"month", "day">>, <<"month", "hour">>, <<"day", "hour">>>>

\* The pillars of present, in the order of pillar_keys, whose index is in group
Present(indices, group) ==
    SelectSeq(PillarNames, LAMBDA pn : pn \in DOMAIN indices /\ indices[pn] \in group)

\* The interactions appended for one pair of branches
BranchPairInteractions(branches, pn_a, pn_b) ==
    IF pn_a \notin DOMAIN branches \/ pn_b \notin DOMAIN branches THEN <<>>
    ELSE LET idx_a == branches[pn_a]
             idx_b == branches[pn_b]
             pair == {idx_a, idx_b}
             Entry(itype, polarity) ==
                 <<[type |-> itype, pillars |-> <<pn_a, pn_b>>, polarity |-> polarity]>>
         IN  (IF pair \in PILLAR_SIX_COMBINATIONS THEN Entry("six_combination", "positive") ELSE <<>>)
             \o (IF pair \in PILLAR_SIX_CLASHES THEN Entry("six_clash", "negative") ELSE <<>>)
             \o (IF pair \in PILLAR_SIX_HARMS THEN Entry("six_harm", "negative") ELSE <<>>)
             \o (IF pair \in PAIR_PUNISHMENTS THEN Entry("three_punishment", "negative") ELSE <<>>)
             \o (IF idx_a = idx_b /\ idx_a \in SELF_PUNISHMENT
                 THEN Entry("self_punishment", "negative") ELSE <<>>)

\* Mutant of ThreeHarmonyInteractions: no partial harmony
ThreeHarmonyInteractions_full_only(branches, trio_set) ==
    LET present == Present(branches, trio_set)
    IN  IF Len(present) >= 3
        THEN <<[type |-> "three_harmony", pillars |-> SubSeq(present, 1, 3),
                polarity |-> "positive"]>>
        ELSE <<>>

\* The interaction appended for one trio of THREE_HARMONIES
ThreeHarmonyInteractions(branches, trio_set) ==
    LET present == Present(branches, trio_set)
    IN  IF Len(present) >= 3
        THEN <<[type |-> "three_harmony", pillars |-> SubSeq(present, 1, 3),
                polarity |-> "positive"]>>
        ELSE IF Len(present) = 2
        THEN <<[type |-> "three_harmony", pillars |-> present,
                polarity |-> "positive", partial |-> TRUE]>>
        ELSE <<>>

\* The interaction appended for one group of THREE_PUNISHMENT_GROUPS
PunishmentGroupInteractions(branches, group) ==
    LET present == Present(branches, group)
    IN  IF Len(present) >= 2
        THEN <<[type |-> "three_punishment", pillars |-> present, polarity |-> "negative"]>>
        ELSE <<>>

StemPairInteractions(stems, pn_a, pn_b) ==
    IF pn_a \notin DOMAIN stems \/ pn_b \notin DOMAIN stems THEN <<>>
    ELSE IF {stems[pn_a], stems[pn_b]} \in STEM_COMBINATIONS
    THEN <<[type |-> "stem_combination", pillars |-> <<pn_a, pn_b>>, polarity |-> "positive"]>>
    ELSE <<>>

\* interactions.append in a loop: the concatenation of what each pass appends
RECURSIVE Flatten(_)
Flatten(appended) ==
    IF appended = <<>> THEN <<>> ELSE Head(appended) \o Flatten(Tail(appended))

analyze_pillar_interactions(four_pillars) ==
    LET branches == _extract_branches(four_pillars)
        stems == _extract_stems(four_pillars)
        interactions ==
            Flatten([n \in 1..Len(PillarPairs) |->
                        BranchPairInteractions(branches, PillarPairs[n][1], PillarPairs[n][2])])
            \o Flatten([n \in 1..Len(THREE_HARMONIES) |->
                           ThreeHarmonyInteractions(branches, THREE_HARMONIES[n])])
            \o Flatten([n \in 1..Len(THREE_PUNISHMENT_GROUPS) |->
                           PunishmentGroupInteractions(branches, THREE_PUNISHMENT_GROUPS[n])])
            \o Flatten([n \in 1..Len(PillarPairs) |->
                           StemPairInteractions(stems, PillarPairs[n][1], PillarPairs[n][2])])
        Polarity(pol) == Len(SelectSeq(interactions, LAMBDA i : i.polarity = pol))
    IN  [interactions |-> interactions,
         summary |-> [positive |-> Polarity("positive"),
                      negative |-> Polarity("negative"),
                      total |-> Len(interactions)]]

(***************************************************************************)
(* Specification SpecInteraction: analyze_pillar_interactions on any four  *)
(* branches.  The stem of a pillar is a stem of the polarity of its branch.*)
(***************************************************************************)

\* How far the stems are shifted against the branches
MaxStemShift == 1

InitInteraction ==
    /\ \E b \in [1..4 -> 0..11], shift \in 0..MaxStemShift :
          interaction_pillars =
              [pn \in {"year", "month", "day", "hour"} |->
                  LET i == CHOOSE k \in 1..4 : PillarNames[k] = pn
                  IN  [stem |-> stem_to_dict(get_stem_by_index(b[i] + 2 * shift * i)),
                       branch |-> branch_to_dict(get_branch_by_index(b[i]))]]
    /\ pillar_interactions = NoInteractions
    /\ IdleExceptInteraction

AnalyzePillarInteractions ==
    /\ pillar_interactions' = analyze_pillar_interactions(interaction_pillars)
    /\ UNCHANGED <<interaction_pillars, exceptInteraction>>

NextInteraction == AnalyzePillarInteractions

SpecInteraction == InitInteraction /\ [][NextInteraction]_vars

\* The types reported for exactly the pair (pn_a, pn_b) by the pair loop
PairTypes(pn_a, pn_b) ==
    { pillar_interactions.interactions[i].type :
        i \in { k \in 1..Len(pillar_interactions.interactions) :
                  /\ pillar_interactions.interactions[k].pillars = <<pn_a, pn_b>>
                  /\ pillar_interactions.interactions[k].type \notin
                        {"three_harmony", "three_punishment", "stem_combination"} } }

\* C15: every pair of natal pillars is reported with at most one of
\* six_combination, six_clash and six_harm (the three tables are pairwise
\* disjoint), a pair of pillars with the same branch with none of them, and
\* self_punishment is reported exactly when the two branches are the same
\* branch of SELF_PUNISHMENT (ZI, WU, YOU, HAI).
C15_PairMatchesAtMostOne ==
    pillar_interactions # NoInteractions =>
        /\ PILLAR_SIX_COMBINATIONS \cap PILLAR_SIX_CLASHES = {}
        /\ PILLAR_SIX_COMBINATIONS \cap PILLAR_SIX_HARMS = {}
        /\ PILLAR_SIX_CLASHES \cap PILLAR_SIX_HARMS = {}
        /\ \A n \in 1..Len(PillarPairs) :
              LET pn_a == PillarPairs[n][1]
                  pn_b == PillarPairs[n][2]
                  types == PairTypes(pn_a, pn_b)
                  a == interaction_pillars[pn_a].branch.name_cn
                  b == interaction_pillars[pn_b].branch.name_cn
              IN  /\ Cardinality(types \cap {"six_combination", "six_clash", "six_harm"}) <= 1
                  /\ a = b => types \cap {"six_combination", "six_clash", "six_harm"} = {}
                  /\ "self_punishment" \in types <=>
                        (a = b /\ a \in {"ZI", "WU_BRANCH", "YOU", "HAI"})

\* C15 witness: the year and month pillars clash, the day and hour pillars
\* share a branch that punishes itself
C15_Witness ==
    /\ PairTypes("year", "month") = {"six_clash"}
    /\ PairTypes("day", "hour") = {"self_punishment"}

\* The periods of the invocations so far, with the input of the invocation
BaziPeriods == { bazi_results[k].age_periods : k \in 1..Len(bazi_results) }

\* C16: calculate_age_periods returns exactly 8 periods; period i (from 0)
\* has start_age = 8 + 10 * i and end_age = start_age + 9, so the periods
\* are increasing, contiguous, disjoint and cover the ages 8..87, and
\* start_year and end_year are the birth year plus start_age and end_age.
C16_EightContiguousPeriods ==
    \A periods \in BaziPeriods :
        /\ Len(periods) = 8
        /\ \A n \in 1..Len(periods) :
              /\ periods[n].start_age = 8 + 10 * (n - 1)
              /\ periods[n].end_age = periods[n].start_age + 9
              /\ periods[n].start_year = bazi_input.birth_date[1] + periods[n].start_age
              /\ periods[n].end_year = bazi_input.birth_date[1] + periods[n].end_age
        /\ \A n \in 1..(Len(periods) - 1) : periods[n + 1].start_age = periods[n].end_age + 1
        /\ UNION { periods[n].start_age..periods[n].end_age : n \in 1..Len(periods) } = 8..87

\* C16 witness: the periods of a woman born in a Yang year and of a man born
\* in the same year have been computed
C16_Witness ==
    /\ bazi_results # <<>>
    /\ bazi_input.gender = "female"
    /\ bazi_input.birth_date[1] = 1904
    /\ bazi_results[1].age_periods[8].end_year = 1991

\* The (stem, branch) of the luck pillar of a period
LuckPair(period) == <<period.luck_pillar.stem.name_cn, period.luck_pillar.branch.name_cn>>

\* direction as the claim words it
ClaimedDirection(gender, year_stem) ==
    IF (gender = "male" /\ get_stem_yin_yang(year_stem) = "Yang")
       \/ (gender = "female" /\ get_stem_yin_yang(year_stem) = "Yin")
    THEN 1 ELSE -1

\* The luck pillars are the Year pillar stepped (i+1)*direction in the stems
\* mod 10 and in the branches mod 12
SteppedIndependently(periods, gender, year_pillar_) ==
    \A n \in 1..Len(periods) :
        LET offset == n * ClaimedDirection(gender, year_pillar_[1])
        IN  LuckPair(periods[n]) =
                <<INDEX_TO_STEM[((STEM_INDEX(year_pillar_[1]) + offset) % 10) + 1],
                  INDEX_TO_BRANCH[((BRANCH_INDEX(year_pillar_[2]) + offset) % 12) + 1]>>

SexagenaryPairs == { SexagenaryPair(n) : n \in 0..59 }

\* C17 (as amended): period i's luck pillar is the Year pillar advanced
\* (i+1)*direction steps in the stems (mod 10) and in the branches (mod 12),
\* direction being +1 for (male, Yang year stem) or (female, Yin year stem)
\* and -1 otherwise; stem and branch take the same number of steps, so the
\* luck pillar is always one of the 60 sexagenary pairs: the pair
\* (i+1)*direction places from the Year pillar in the cycle.
C17_LuckPillarStaysInCycle ==
    \A k \in 1..Len(bazi_results) :
        LET r == bazi_results[k]
            gender == bazi_input.gender
        IN  /\ r.luck_direction = ClaimedDirection(gender, r.four_pillars.year[1])
            /\ SteppedIndependently(r.age_periods, gender, r.four_pillars.year)
            /\ \A n \in 1..Len(r.age_periods) :
                  /\ LuckPair(r.age_periods[n]) \in SexagenaryPairs
                  /\ LuckPair(r.age_periods[n]) =
                        SexagenaryPair((SexagenaryPosition(r.four_pillars.year)
                                        + n * r.luck_direction) % 60)

\* C17 witness: a backward direction whose steps wrap below the first stem
\* and the first branch
C17_Witness ==
    /\ bazi_results # <<>>
    /\ bazi_results[1].luck_direction = -1
    /\ bazi_results[1].four_pillars.year = <<"WU", "CHEN">>
    /\ LuckPair(bazi_results[1].age_periods[8]) = <<"GENG", "SHEN">>

\* C17 (as stated): the stepping above, and for some Year pillar of the 60
\* years of the cycle, some gender and some period the luck pillar is not
\* one of the 60 sexagenary pairs.
C17_CanDesynchronise ==
    \A k \in 1..Len(bazi_results) :
        /\ SteppedIndependently(bazi_results[k].age_periods, bazi_input.gender,
                                bazi_results[k].four_pillars.year)
        /\ \E y \in GREGORIAN_EPOCH..(GREGORIAN_EPOCH + 59), gender \in {"male", "female"} :
              LET yp == get_year_stem_branch(y)
                  periods == calculate_age_periods(<<y, 1, 1>>, gender, yp[1], yp[2], "Wood", "en")
              IN  \E n \in 1..Len(periods) : LuckPair(periods[n]) \notin SexagenaryPairs

\* The score of a dimension of a result, in tenths
DimensionScore(result, key) ==
    LET n == CHOOSE k \in 1..Len(result.dimensions) : result.dimensions[k].key = key
    IN  result.dimensions[n].score

\* What C18 says of one result
SumRangesAndTier(result) ==
    /\ Len(result.dimensions) = 5
    /\ result.total_score =
          DimensionScore(result, "day_master") + DimensionScore(result, "year_branch")
          + DimensionScore(result, "day_branch") + DimensionScore(result, "elements")
          + DimensionScore(result, "use_god")
    /\ DimensionScore(result, "day_master") \in 0..300
    /\ DimensionScore(result, "year_branch") \in 0..250
    /\ DimensionScore(result, "day_branch") \in 0..250
    /\ DimensionScore(result, "elements") \in 0..100
    /\ DimensionScore(result, "use_god") \in 0..100
    /\ result.total_score \in 0..1000
    /\ result.tier = (CASE result.total_score >= 820 -> "excellent"
                        [] result.total_score \in 660..819 -> "good"
                        [] result.total_score \in 500..659 -> "average"
                        [] result.total_score \in 350..499 -> "challenging"
                        [] OTHER -> "difficult")

\* C18: total_score is the sum of the five dimension scores, each within
\* its range (day_master 0..30, year_branch 0..25, day_branch 0..25,
\* elements 0..10, use_god 0..10), so total_score is in 0..100, and the tier
\* is the band of total_score under the thresholds 82 / 66 / 50 / 35.
\* Scores are in tenths.
C18_TotalIsSumInBands ==
    /\ compat_ab # NoCompat => SumRangesAndTier(compat_ab)
    /\ compat_ba # NoCompat => SumRangesAndTier(compat_ba)

\* C18 witness: a total between 80 and 82, which is good and not excellent
C18_Witness ==
    /\ compat_ab # NoCompat
    /\ compat_ab.total_score \in 800..819
    /\ compat_ab.tier = "good"

HiddenStemsAnnotated ==
    \A p \in DOMAIN natal_pillars : "hidden_stems" \in DOMAIN natal_pillars[p].branch

\* Every stem and every branch of the chart carries ten_god
TenGodsAnnotated ==
    \A p \in DOMAIN natal_pillars :
        /\ "ten_god" \in DOMAIN natal_pillars[p].stem
        /\ "ten_god" \in DOMAIN natal_pillars[p].branch

\* The name, element and polarity of every stem and branch are those of before
IdentityKept ==
    /\ DOMAIN natal_pillars' = DOMAIN natal_pillars
    /\ \A p \in DOMAIN natal_pillars :
          /\ natal_pillars'[p].stem.name_cn = natal_pillars[p].stem.name_cn
          /\ natal_pillars'[p].stem.element = natal_pillars[p].stem.element
          /\ natal_pillars'[p].stem.yin_yang = natal_pillars[p].stem.yin_yang
          /\ natal_pillars'[p].branch.name_cn = natal_pillars[p].branch.name_cn
          /\ natal_pillars'[p].branch.element = natal_pillars[p].branch.element
          /\ natal_pillars'[p].branch.yin_yang = natal_pillars[p].branch.yin_yang

\* C20: a second application of annotate_four_pillars_with_hidden_stems, or
\* of annotate_four_pillars_with_ten_gods with the same Day Master, to an
\* annotated chart leaves the chart as it is, and no application of either
\* changes the name, the element or the polarity of a stem or a branch.
C20_AnnotationIdempotent ==
    [][/\ (AnnotateHiddenStems /\ HiddenStemsAnnotated) => natal_pillars' = natal_pillars
       /\ (AnnotateTenGods /\ TenGodsAnnotated) => natal_pillars' = natal_pillars
       /\ (AnnotateHiddenStems \/ AnnotateTenGods) => IdentityKept]_vars

\* C20 witness: a chart that has been through both passes, on which either
\* pass can run again
C20_Witness ==
    /\ natal_pillars # <<>>
    /\ HiddenStemsAnnotated
    /\ TenGodsAnnotated
    /\ strongest_ten_god = NoStrongest
    /\ Len(natal_pillars["year"].branch.hidden_stems) = 3

\* The branch index of a pillar given to analyze_pillar_interactions
InteractionBranch(pn) == BRANCH_INDEX(interaction_pillars[pn].branch.name_cn)

\* C21: the annual-luck and forecast detection, the natal analyzer and the
\* compatibility scorer use the same relations: for all branch indices a, b
\* in 0..11, _is_clash(a, b) iff {a, b} is in the analyzer's SIX_CLASHES,
\* _is_combination(a, b) iff {a, b} is in its SIX_COMBINATIONS, and the
\* scorer's SIX_CLASHES, SIX_HARMONIES and SIX_HARMS are the analyzer's
\* SIX_CLASHES, SIX_COMBINATIONS and SIX_HARMS; so every pair of pillars the
\* analyzer reports is the pair the other components detect.
C21_SameRelations ==
    pillar_interactions # NoInteractions =>
        /\ \A a, b \in 0..11 :
              /\ _is_clash(a, b) <=> {a, b} \in PILLAR_SIX_CLASHES
              /\ _is_combination(a, b) <=> {a, b} \in PILLAR_SIX_COMBINATIONS
        /\ COMPAT_SIX_CLASHES = PILLAR_SIX_CLASHES
        /\ SIX_HARMONIES = PILLAR_SIX_COMBINATIONS
        /\ SIX_HARMS = PILLAR_SIX_HARMS
        /\ \A n \in 1..Len(PillarPairs) :
              LET a == InteractionBranch(PillarPairs[n][1])
                  b == InteractionBranch(PillarPairs[n][2])
                  types == PairTypes(PillarPairs[n][1], PillarPairs[n][2])
              IN  /\ "six_clash" \in types <=> _is_clash(a, b)
                  /\ "six_clash" \in types <=> compat_is_clash(a, b)
                  /\ "six_combination" \in types <=> _is_combination(a, b)
                  /\ "six_combination" \in types <=> _is_harmony(a, b)
                  /\ "six_harm" \in types <=> _is_harm(a, b)

\* C21 witness: a clash given with the larger index first (WU, ZI), a
\* combination (CHOU, ZI) and a harm among the pairs of one chart
C21_Witness ==
    /\ pillar_interactions # NoInteractions
    /\ InteractionBranch("year") = 6 /\ InteractionBranch("month") = 0
    /\ InteractionBranch("day") = 1 /\ InteractionBranch("hour") = 0
    /\ PairTypes("year", "month") = {"six_clash"}
    /\ PairTypes("month", "day") = {"six_combination"}
    /\ PairTypes("year", "day") = {"six_harm"}

\* C22: for every valid date from 1900-01-01 to 2100-12-31 the day pillar of
\* calculator.get_day_stem_branch (summation over years and months) is the
\* pillar of daily_forecast.get_daily_pillar (day difference to 1900-01-01).
C22_DayPillarsAgree ==
    (day_pillar # NoPillar /\ target_day_pillar # NoPillar) => day_pillar = target_day_pillar

\* C22 witness: both pillars of 2100-03-01, the day after a February of 28
\* days in a year divisible by 4
C22_Witness ==
    /\ year = 2100 /\ month = 3 /\ day = 1
    /\ day_pillar # NoPillar
    /\ target_day_pillar = day_pillar

\* The distinct branches of the chart
InteractionBranches == { InteractionBranch(pn) : pn \in DOMAIN interaction_pillars }

\* The three_harmony interactions reported for a group: those whose pillars
\* lie in the group (the groups share no branch)
HarmonyEntries(group) ==
    { k \in 1..Len(pillar_interactions.interactions) :
        /\ pillar_interactions.interactions[k].type = "three_harmony"
        /\ InteractionBranch(pillar_interactions.interactions[k].pillars[1]) \in group }

IsPartial(k) == "partial" \in DOMAIN pillar_interactions.interactions[k]

\* C23: a full three_harmony is reported only when all three distinct
\* branches of a harmony group are among the natal branches; with exactly two
\* distinct branches of the group it is reported as partial, and with fewer
\* nothing is reported for the group.
C23_FullHarmonyNeedsThreeBranches ==
    pillar_interactions # NoInteractions =>
        \A n \in 1..Len(THREE_HARMONIES) :
            LET group == THREE_HARMONIES[n]
                distinct == Cardinality(group \cap InteractionBranches)
            IN  /\ \A k \in HarmonyEntries(group) : ~IsPartial(k) => distinct = 3
                /\ distinct = 2 =>
                      /\ HarmonyEntries(group) # {}
                      /\ \A k \in HarmonyEntries(group) : IsPartial(k)
                /\ distinct < 2 => HarmonyEntries(group) = {}

\* The types of the interactions reported
InteractionTypes ==
    { pillar_interactions.interactions[k].type : k \in 1..Len(pillar_interactions.interactions) }

TIER_FEATURES ==
    [free |-> [max_daily_analyses |-> 3], premium |-> [max_daily_analyses |-> 0]]

\* get_features: TIER_FEATURES.get(tier, TIER_FEATURES["free"])
get_features(tier) ==
    IF tier \in DOMAIN TIER_FEATURES THEN TIER_FEATURES[tier] ELSE TIER_FEATURES["free"]

\* "Reset counter at day boundary": the entry of key as check and increment
\* leave it before they read the count
ResetAtDayBoundary(counters, key, now) ==
    IF counters[key].day # now
    THEN [counters EXCEPT ![key] = [count |-> 0, day |-> now]]
    ELSE counters

\* Mutant of check: a request passes while the count is at most the limit
check_at_most(counters, key, tier, now) ==
    LET limit == get_features(tier).max_daily_analyses
    IN  IF limit = 0 THEN [allowed |-> TRUE, counters |-> counters]
        ELSE [allowed |-> ResetAtDayBoundary(counters, key, now)[key].count <= limit,
              counters |-> ResetAtDayBoundary(counters, key, now)]

\* Mutant of check: the counter is not reset at the day boundary
check_without_reset(counters, key, tier, now) ==
    LET limit == get_features(tier).max_daily_analyses
    IN  IF limit = 0 THEN [allowed |-> TRUE, counters |-> counters]
        ELSE [allowed |-> counters[key].count < limit, counters |-> counters]

\* RateLimiter.check on the day now: what it returns and what it leaves in
\* _counters
check(counters, key, tier, now) ==
    LET limit == get_features(tier).max_daily_analyses
    IN  IF limit = 0 THEN [allowed |-> TRUE, counters |-> counters]
        ELSE [allowed |-> ResetAtDayBoundary(counters, key, now)[key].count < limit,
              counters |-> ResetAtDayBoundary(counters, key, now)]

\* RateLimiter.get_usage on the day now; -1 stands for None
get_usage(counters, key, tier, now) ==
    LET limit == get_features(tier).max_daily_analyses
        entry == counters[key]
    IN  IF limit = 0 THEN [used |-> 0, limit |-> -1, remaining |-> -1]
        ELSE IF entry.day # now THEN [used |-> 0, limit |-> limit, remaining |-> limit]
        ELSE [used |-> entry.count, limit |-> limit,
              remaining |-> Max(0, limit - entry.count)]

\* RateLimiter.increment on the day now: what it leaves in _counters
increment(counters, key, now) ==
    LET reset == ResetAtDayBoundary(counters, key, now)
    IN  [reset EXCEPT ![key].count = @ + 1]

(***************************************************************************)
(* Specification SpecRate: concurrent requests to a rate-limited endpoint  *)
(* while the clock passes midnight (UTC).                                  *)
(***************************************************************************)

\* The number of requests
MaxRequests == 5

\* The day numbers the clock reads; the default entry of a key has day 0
FirstDay == 1

MaxDay == 2

\* Who sends a request: an anonymous client (key: its host, tier free) or a
\* logged-in premium user (key: the user id)
Clients ==
    {[key |-> "203.0.113.7", tier |-> "free"], [key |-> "user-1", tier |-> "premium"]}

NoRequest == [pc |-> "await_user", key |-> "", tier |-> "", status |-> 0, used |-> -1, checked_on |-> 0]

InitRate ==
    /\ _counters = [k \in {c.key : c \in Clients} |-> [count |-> 0, day |-> 0]]
    /\ today = FirstDay
    /\ requests = [r \in 1..MaxRequests |-> NoRequest]
    /\ IdleExceptRate

\* user = await get_optional_user(http_request); tier and rate_key
ResolveUser(r) ==
    /\ requests[r].pc = "await_user"
    /\ \E c \in Clients :
          requests' = [requests EXCEPT ![r] = [@ EXCEPT !.pc = "gate", !.key = c.key, !.tier = c.tier]]
    /\ UNCHANGED <<_counters, today, exceptRate>>

\* if not rate_limiter.check(...): 429 with get_usage(...); else
\* rate_limiter.increment(...).  No other handler runs between the calls;
\* the clock may pass midnight between them (later).
Gate(r) ==
    /\ requests[r].pc = "gate"
    /\ \E later \in today..Min(today + 1, MaxDay) :
          LET key == requests[r].key
              tier == requests[r].tier
              checked == check(_counters, key, tier, today)
          IN  /\ today' = later
              /\ IF checked.allowed
                 THEN /\ _counters' = increment(checked.counters, key, later)
                      /\ requests' = [requests EXCEPT ![r] =
                            [@ EXCEPT !.pc = "done", !.status = 200, !.checked_on = today]]
                 ELSE /\ _counters' = checked.counters
                      /\ requests' = [requests EXCEPT ![r] =
                            [@ EXCEPT !.pc = "done", !.status = 429, !.checked_on = today,
                                      !.used = get_usage(checked.counters, key, tier, later).used]]
    /\ UNCHANGED exceptRate

\* int(time.time()) // 86400 grows by one at midnight
Midnight ==
    /\ today < MaxDay
    /\ today' = today + 1
    /\ UNCHANGED <<_counters, requests, exceptRate>>

NextRate ==
    \/ \E r \in 1..MaxRequests : ResolveUser(r)
    \/ \E r \in 1..MaxRequests : Gate(r)
    \/ Midnight

SpecRate == InitRate /\ [][NextRate]_vars

\* The requests of a key that passed the gate with a check on the day d
Passed(key, d) ==
    { r \in 1..MaxRequests :
        /\ requests[r].pc = "done" /\ requests[r].key = key
        /\ requests[r].status = 200 /\ requests[r].checked_on = d }

FreeKeys == { c.key : c \in { cl \in Clients : cl.tier = "free" } }

\* C24: under any interleaving of the requests of a key, at most
\* max_daily_analyses (3) of them pass the gate within one UTC day and the
\* stored count of a free-tier key never exceeds 3; a premium request
\* always passes.
C24_AtMostThreePerDay ==
    /\ \A k \in FreeKeys :
          /\ _counters[k].count <= 3
          /\ \A d \in FirstDay..(MaxDay + 1) : Cardinality(Passed(k, d)) <= 3
    /\ \A r \in 1..MaxRequests :
          (requests[r].pc = "done" /\ requests[r].tier = "premium") => requests[r].status = 200

\* C24 witness: five requests of the anonymous client on one day, three
\* passed and two rejected with used = 3
C24_Witness ==
    /\ today = FirstDay
    /\ Cardinality(Passed("203.0.113.7", FirstDay)) = 3
    /\ \A r \in 1..MaxRequests :
          /\ requests[r].pc = "done"
          /\ requests[r].status = 429 => requests[r].used = 3

\* C25: after the UTC day number has changed the first check of a free-tier
\* key returns True whatever count the key reached before, and the count
\* restarts from 0 (it is 1 after the request); get_usage reports used = 0
\* for a key whose stored day is not today.
C25_DailyReset ==
    [][\A r \in 1..MaxRequests :
          (requests[r].pc = "gate" /\ requests'[r].pc = "done" /\ requests[r].tier = "free") =>
              LET key == requests[r].key
              IN  /\ _counters[key].day # today =>
                        /\ requests'[r].status = 200
                        /\ _counters'[key] = [count |-> 1, day |-> today']
                  /\ (requests'[r].status = 429 /\ _counters'[key].day # today') =>
                        requests'[r].used = 0]_vars

\* C25 witness: three requests passed on the first day, a fourth was
\* rejected while midnight passed (used = 0), a fifth passed on the next day
C25_Witness ==
    /\ Cardinality(Passed("203.0.113.7", FirstDay)) = 3
    /\ Cardinality(Passed("203.0.113.7", FirstDay + 1)) = 1
    /\ \E r \in 1..MaxRequests : requests[r].status = 429 /\ requests[r].used = 0
    /\ _counters["203.0.113.7"] = [count |-> 1, day |-> FirstDay + 1]

(***************************************************************************)
(* Element balance of the eight positions (elements.py)                    *)
(***************************************************************************)

\* sum(element_counts.values())
TotalCount(counts) ==
    counts["Wood"] + counts["Fire"] + counts["Earth"] + counts["Metal"] + counts["Water"]

\* count < avg * 0.7 with avg = total / 5, in whole numbers
IsDeficient(count, total) == 50 * count < 7 * total

\* count > avg * 1.3 with avg = total / 5, in whole numbers
IsAbundant(count, total) == 50 * count > 13 * total

\* Mutant of get_element_balance: the abundant test comes first
get_element_balance_abundant_first(counts) ==
    LET total == TotalCount(counts)
        deficient == { e \in Element : IsDeficient(counts[e], total) }
        abundant == { e \in Element : IsAbundant(counts[e], total) }
    IN  IF total = 0
        THEN [total |-> 0, balance |-> "insufficient_data", deficient |-> {}, abundant |-> {}]
        ELSE [total |-> total,
              balance |-> IF Cardinality(abundant) >= 2 THEN "strong"
                          ELSE IF Cardinality(deficient) >= 2 THEN "weak"
                          ELSE "neutral",
              deficient |-> deficient, abundant |-> abundant]

\* get_element_balance; the lists deficient and abundant as sets
get_element_balance(counts) ==
    LET total == TotalCount(counts)
        deficient == { e \in Element : IsDeficient(counts[e], total) }
        abundant == { e \in Element : IsAbundant(counts[e], total) }
    IN  IF total = 0
        THEN [total |-> 0, balance |-> "insufficient_data", deficient |-> {}, abundant |-> {}]
        ELSE [total |-> total,
              balance |-> IF Cardinality(deficient) >= 2 THEN "weak"
                          ELSE IF Cardinality(abundant) >= 2 THEN "strong"
                          ELSE "neutral",
              deficient |-> deficient, abundant |-> abundant]

(***************************************************************************)
(* Specification SpecBalance: get_element_balance on the tally of the      *)
(* elements of the eight positions of a chart (four stems, four branches). *)
(***************************************************************************)

\* calculate_bazi: all_elements has the elements of the stem and the branch
\* of "year", "month", "day" and "hour"
InitBalance ==
    /\ \E all_elements \in [1..8 -> Element] : balance_counts = count_elements(all_elements)
    /\ element_analysis = NoBalance
    /\ IdleExceptBalance

GetElementBalance ==
    /\ element_analysis = NoBalance
    /\ element_analysis' = get_element_balance(balance_counts)
    /\ UNCHANGED <<balance_counts, exceptBalance>>

NextBalance == GetElementBalance

SpecBalance == InitBalance /\ [][NextBalance]_vars

\* The elements counted n times in the tally
CountedTimes(n) == { e \in Element : balance_counts[e] = n }

\* C27: for the tally of eight positions get_element_balance never returns
\* 'strong'; it returns 'neutral' exactly for the tallies 2,2,2,2,0 and
\* 'weak' for every other; an element is deficient iff it is counted 0 or 1
\* times and abundant iff it is counted 3 times or more; with two deficient
\* and two abundant elements the deficient test decides.
C27_NeverStrong ==
    element_analysis # NoBalance =>
        /\ element_analysis.total = 8
        /\ element_analysis.balance # "strong"
        /\ element_analysis.balance = "neutral" <=>
              (Cardinality(CountedTimes(2)) = 4 /\ Cardinality(CountedTimes(0)) = 1)
        /\ element_analysis.balance \in {"neutral", "weak"}
        /\ \A e \in Element :
              /\ e \in element_analysis.deficient <=> balance_counts[e] \in {0, 1}
              /\ e \in element_analysis.abundant <=> balance_counts[e] >= 3
        /\ (Cardinality(element_analysis.deficient) >= 2
              /\ Cardinality(element_analysis.abundant) >= 2) =>
                 element_analysis.balance = "weak"

\* C27 witness: the tally 3,3,2,0,0 has two abundant and two deficient
\* elements and is 'weak'
C27_Witness ==
    /\ balance_counts = [Wood |-> 3, Fire |-> 3, Earth |-> 2, Metal |-> 0, Water |-> 0]
    /\ element_analysis.balance = "weak"
    /\ element_analysis.abundant = {"Wood", "Fire"}
    /\ element_analysis.deficient = {"Metal", "Water"}

\* The score the claim gives to a luck element against the Day Master
ClaimedLuckScore(luck_element, day_master_element) ==
    IF luck_element = day_master_element THEN 2
    ELSE IF GENERATION_CYCLE(luck_element) = day_master_element THEN 2
    ELSE IF GENERATION_CYCLE(day_master_element) = luck_element THEN 1
    ELSE IF DESTRUCTION_CYCLE(luck_element) = day_master_element THEN -2
    ELSE -1

ClaimedQuality(score) ==
    CASE score = 2 -> "very_auspicious"
      [] score = 1 -> "auspicious"
      [] score = -1 -> "challenging"
      [] score = -2 -> "very_challenging"
      [] OTHER -> "neutral"

\* The luck scores of the periods of a chart
PeriodScores(periods) == { periods[n].luck_score : n \in 1..Len(periods) }

\* C28: the luck_score of a period is one of -2, -1, +1, +2: +2
\* (very_auspicious) when the luck element is the Day Master's or generates
\* it, +1 (auspicious) when the Day Master generates it, -2
\* (very_challenging) when it destroys the Day Master, -1 (challenging) when
\* the Day Master destroys it; 0 / 'neutral' never occurs, and favorable
\* holds iff the score is at least 1.
C28_LuckScoreNeverNeutral ==
    /\ \A luck_element, day_master_element \in Element :
          LuckScore(luck_element, day_master_element) =
              ClaimedLuckScore(luck_element, day_master_element)
    /\ \A periods \in BaziPeriods :
          \A n \in 1..Len(periods) :
              LET p == periods[n]
              IN  /\ p.luck_score \in {-2, -1, 1, 2}
                  /\ p.luck_score = ClaimedLuckScore(p.main_element, p.day_master_element)
                  /\ p.quality = ClaimedQuality(p.luck_score)
                  /\ p.quality # "neutral"
                  /\ p.favorable <=> p.luck_score >= 1

\* C28 witness: a chart whose eight periods have all four scores
C28_Witness ==
    /\ bazi_results # <<>>
    /\ PeriodScores(bazi_results[1].age_periods) = {-2, -1, 1, 2}
    /\ \E n \in 1..8 :
          /\ bazi_results[1].age_periods[n].relationship_to_day_master = "none"
          /\ bazi_results[1].age_periods[n].luck_score = 1

\* The four elements of a result of determine_use_god, in the order use_god,
\* use_god_secondary, avoid_god, avoid_god_secondary
FourGods(result) ==
    <<result.use_god, result.use_god_secondary, result.avoid_god, result.avoid_god_secondary>>

\* Four elements, pairwise distinct, none of them the one day_master_element
\* controls
DistinctAndNotWealth(gods, day_master_element) ==
    /\ \A i \in 1..4 : gods[i] \in Element
    /\ \A i, j \in 1..4 : i # j => gods[i] # gods[j]
    /\ \A i \in 1..4 : gods[i] # DESTRUCTION_CYCLE(day_master_element)

\* C29: the four elements determine_use_god returns (use_god,
\* use_god_secondary, avoid_god, avoid_god_secondary) are pairwise distinct
\* and none is the Wealth element, the one the Day Master controls, for every
\* Day Master element and strength class; in particular use_god differs
\* from avoid_god.
C29_UseAndAvoidGodsDisjoint ==
    /\ \A e \in Element, s \in DmStrength :
          DistinctAndNotWealth(FourGods(UseGodByStrength(e, s)), e)
    /\ use_god_result # NoUseGodResult =>
          /\ DistinctAndNotWealth(FourGods(use_god_result), ChartDayMaster)
          /\ use_god_result.use_god # use_god_result.avoid_god

\* C29 witness: a strong Water Day Master: use Wood then Earth, avoid Water
\* then Metal; Fire, which Water controls, is left out
C29_Witness ==
    /\ use_god_result # NoUseGodResult
    /\ use_god_result.dm_strength = "strong"
    /\ ChartDayMaster = "Water"
    /\ FourGods(use_god_result) = <<"Wood", "Earth", "Water", "Metal">>

\* The four tables of use_god.py against get_element_relationships, for the
\* elements x and y
TablesAgree(x, y) ==
    /\ OUTPUT_OF(x) = y <=> get_element_relationships(x, y) = "generates"
    /\ RESOURCE_FOR(x) = y <=> get_element_relationships(y, x) = "generates"
    /\ CONTROLLED_BY(x) = y <=> get_element_relationships(x, y) = "destroys"
    /\ CONTROLLER_OF(x) = y <=> get_element_relationships(y, x) = "destroys"

\* C30: the role tables of use_god.py say what get_element_relationships
\* says: OUTPUT_OF[x] = y iff x generates y, RESOURCE_FOR[x] = y iff y
\* generates x, CONTROLLED_BY[x] = y iff x destroys y, CONTROLLER_OF[x] = y
\* iff y destroys x.
C30_RoleTablesMatchCycles ==
    /\ \A x, y \in Element : TablesAgree(x, y)
    /\ ten_god # "" =>
          /\ OUTPUT_OF(dm_element) = target_element <=> rel_dm_to_target = "generates"
          /\ RESOURCE_FOR(dm_element) = target_element <=> rel_target_to_dm = "generates"
          /\ CONTROLLED_BY(dm_element) = target_element <=> rel_dm_to_target = "destroys"
          /\ CONTROLLER_OF(dm_element) = target_element <=> rel_target_to_dm = "destroys"

\* C30 witness: Earth is what controls Water, and Earth destroys Water
C30_Witness ==
    /\ ten_god # ""
    /\ dm_element = "Water" /\ target_element = "Earth"
    /\ CONTROLLER_OF(dm_element) = target_element
    /\ rel_target_to_dm = "destroys"
    /\ rel_dm_to_target = "none"

====
